---- MODULE Spec2Model ----
(***************************************************************************)
(* Model of the SAGA engine (saga/engine/engine.py): adaptor loading into  *)
(* the _cpis registry and the binding of API objects to adaptor classes    *)
(* by Engine.get_adaptor / Engine.find_adaptors, alone and by concurrent   *)
(* callers; and of the ssh job adaptor (saga/adaptors/ssh/ssh_job.py):     *)
(* one SSHJob of an SSHJobService and its native process.                  *)
(*                                                                         *)
(* Python strings on which the code calls lower() or tests substrings are  *)
(* modelled as sequences of one-character strings, so that lower() is a    *)
(* real conversion.  Python dicts are functions; a key is present iff it   *)
(* is in the DOMAIN.                                                       *)
(***************************************************************************)
EXTENDS Integers, Sequences, FiniteSets, TLC

VARIABLES
    adaptor_registry,   \* the list of module names _load_adaptors iterates over
    allow_betas,        \* value of the 'load_beta_adaptors' option
    cpis,               \* Engine._cpis : type -> schema -> list of infos
    phase,              \* "new" | "ready" | "failed" (Engine() raised)
    load_outcome,       \* how the _load_adaptors call ended
    call,               \* the last find_adaptors / get_adaptor call and its result
    threads,            \* concurrent callers of the engine: position and result
    names_bound,        \* ssh_job module: are os, signal, subprocess, JobId bound
    job,                \* the SSHJob instance: its attributes
    process,            \* the native process behind job._process
    jobs,               \* SSHJobService._jobs : job -> id
    now,                \* time.time ()
    started,            \* number of native processes started so far
    jcall,              \* the job call in progress or the last one, and its result
    pty,                \* SSHJobService.pty and the driver that talks to it
    cjobs,              \* the SSHJob instances of one service, by job
    cprocs,             \* their native processes, by job
    fs,                 \* the local filesystem the dummy adaptor works on
    dummy               \* the dummy adaptor's call in progress or the last one, its Task

\* the variables of the dummy filesystem adaptor
filevars == <<fs, dummy>>

\* the variables of an ssh job service with several jobs, and those of the
\* dummy filesystem adaptor
servicevars == <<pty, cjobs, cprocs, filevars>>

\* the variables of the ssh job adaptor
jobvars == <<names_bound, job, process, jobs, now, started, jcall, servicevars>>

vars == <<adaptor_registry, allow_betas, cpis, phase, load_outcome, call,
          threads, names_bound, job, process, jobs, now, started, jcall,
          pty, cjobs, cprocs, fs, dummy>>

(***************************************************************************)
(* Bounds                                                                  *)
(***************************************************************************)
MaxRegistry == 3        \* longest adaptor registry list

(***************************************************************************)
(* Strings                                                                 *)
(***************************************************************************)
UpperCase == <<"A","B","C","D","E","F","G","H","I","J","K","L","M",
               "N","O","P","Q","R","S","T","U","V","W","X","Y","Z">>
LowerCase == <<"a","b","c","d","e","f","g","h","i","j","k","l","m",
               "n","o","p","q","r","s","t","u","v","w","x","y","z">>

LowerChar(c) ==
    IF \E i \in 1..26 : UpperCase[i] = c
    THEN LowerCase[CHOOSE i \in 1..26 : UpperCase[i] = c]
    ELSE c

\* str.lower()
Lower(s) == [i \in 1..Len(s) |-> LowerChar(s[i])]

\* sub in s
Contains(sub, s) ==
    \E i \in 0..(Len(s) - Len(sub)) : SubSeq(s, i + 1, i + Len(sub)) = sub

S_alpha == <<"a","l","p","h","a">>
S_beta  == <<"b","e","t","a">>

\* the URL schemes used below
S_ssh    == <<"s","s","h">>
S_gsissh == <<"g","s","i","s","s","h">>
S_dummy  == <<"d","u","m","m","y">>
S_SSH    == <<"S","S","H">>
S_Ssh    == <<"S","s","h">>
S_http   == <<"h","t","t","p">>
S_HTTP   == <<"H","T","T","P">>
S_ftp    == <<"f","t","p">>

T_Service   == "saga.job.Service"
T_Job       == "saga.job.Job"
T_Directory == "saga.filesystem.Directory"
T_File      == "saga.filesystem.File"

None == "None"

(***************************************************************************)
(* Adaptor modules.  A module is described by what the loader observes of  *)
(* it: whether the import succeeds, whether Adaptor() raises, what         *)
(* register() does and returns, which names the module defines, and what   *)
(* reading the adaptor's 'enabled' option yields.                          *)
(***************************************************************************)

\* saga/adaptors/ssh/ssh_job.py
SSHJobAdaptorInfo ==
    [ name    |-> "saga.adaptor.ssh_job",
      version |-> <<"v","0",".","1">>,
      schemas |-> <<S_ssh, S_gsissh>>,
      cpis    |-> << [type |-> T_Service, class |-> "SSHJobService"],
                     [type |-> T_Job,     class |-> "SSHJob"] >> ]

SSHJobModule ==
    [ import   |-> TRUE,
      adaptor  |-> "ok",
      register |-> "info",
      info     |-> SSHJobAdaptorInfo,
      classes  |-> {"Adaptor", "SSHJobService", "SSHJob"},
      enabled  |-> "True" ]

\* saga/adaptors/local/dummyfile.py
DummyAdaptorInfo ==
    [ name    |-> "saga.adaptor.dummysystem.local",
      version |-> <<"v","0",".","1","b","e","t","a">>,
      schemas |-> <<S_dummy>>,
      cpis    |-> << [type |-> T_Directory, class |-> "DummyDirectory"],
                     [type |-> T_File,      class |-> "DummyFile"] >> ]

DummyModule ==
    [ import   |-> TRUE,
      adaptor  |-> "ok",
      register |-> "info",
      info     |-> DummyAdaptorInfo,
      classes  |-> {"Adaptor", "DummyDirectory", "DummyFile"},
      enabled  |-> "True" ]

\* An adaptor in the format the engine's docstring describes: every cpi
\* carries its own 'schemas'.
GoodModule(name, version, cpi_list, enabled) ==
    [ import   |-> TRUE,
      adaptor  |-> "ok",
      register |-> "info",
      info     |-> [name |-> name, version |-> version, cpis |-> cpi_list],
      classes  |-> {"Adaptor"} \cup {cpi_list[i].class : i \in 1..Len(cpi_list)},
      enabled  |-> enabled ]

Cpi(type, class, schemas) == [type |-> type, class |-> class, schemas |-> schemas]

V_release == <<"v","1",".","0">>
V_Beta    == <<"v","2","-","B","e","t","a">>
V_ALPHA   == <<"A","L","P","H","A","3">>

ModuleA == GoodModule("a", V_release,
              << Cpi(T_Service, "AService", <<S_SSH, S_http>>),
                 Cpi(T_Job,     "AJob",     <<S_ssh>>) >>, "True")

\* two implementation classes for the same type and scheme; the second
\* cpi lists the same scheme twice, in different case
ModuleB == GoodModule("b", V_release,
              << Cpi(T_Service, "BService",  <<S_ssh>>),
                 Cpi(T_Service, "BService2", <<S_Ssh, S_ssh>>) >>, "True")

ModuleBeta  == GoodModule("beta",  V_Beta,
              << Cpi(T_Service, "BetaService", <<S_ssh>>) >>, "True")

ModuleAlpha == GoodModule("alpha", V_ALPHA,
              << Cpi(T_Service, "AlphaService", <<S_HTTP>>) >>, "True")

ModuleOff   == GoodModule("off", V_release,
              << Cpi(T_Service, "OffService", <<S_ssh>>) >>, "False")

ModuleNoImport == [ModuleA EXCEPT !.import = FALSE]

ModuleCtorRaises == [ModuleA EXCEPT !.adaptor = "raise"]

ModuleRegisterRaises == [ModuleA EXCEPT !.register = "raise"]

ModuleRegisterNone == [ModuleA EXCEPT !.register = "None"]

\* meta data without 'version'
ModuleIncomplete ==
    [ModuleA EXCEPT !.info = [name |-> "incomplete", cpis |-> ModuleA.info.cpis]]

\* reading the 'enabled' option raises
ModuleNoEnabled ==
    GoodModule("noenabled", V_release,
              << Cpi(T_Service, "NService", <<S_ssh>>) >>, "raise")

\* the second cpi names a class the module does not define
ModuleNoClass ==
    [GoodModule("noclass", V_release,
              << Cpi(T_Service, "CService", <<S_ssh>>),
                 Cpi(T_Job,     "CJob",     <<S_ssh>>) >>, "True")
        EXCEPT !.classes = {"Adaptor", "CService"}]

Modules ==
    [ m \in {"saga.adaptors.ssh.ssh_job", "saga.adaptors.local.dummyfile",
             "mod_a", "mod_b", "mod_beta", "mod_alpha", "mod_off",
             "mod_noimport", "mod_ctor_raises", "mod_register_raises",
             "mod_register_none", "mod_incomplete", "mod_noenabled",
             "mod_noclass"} |->
        CASE m = "saga.adaptors.ssh.ssh_job"     -> SSHJobModule
          [] m = "saga.adaptors.local.dummyfile" -> DummyModule
          [] m = "mod_a"               -> ModuleA
          [] m = "mod_b"               -> ModuleB
          [] m = "mod_beta"            -> ModuleBeta
          [] m = "mod_alpha"           -> ModuleAlpha
          [] m = "mod_off"             -> ModuleOff
          [] m = "mod_noimport"        -> ModuleNoImport
          [] m = "mod_ctor_raises"     -> ModuleCtorRaises
          [] m = "mod_register_raises" -> ModuleRegisterRaises
          [] m = "mod_register_none"   -> ModuleRegisterNone
          [] m = "mod_incomplete"      -> ModuleIncomplete
          [] m = "mod_noenabled"       -> ModuleNoEnabled
          [] m = "mod_noclass"         -> ModuleNoClass ]

ModuleNames == DOMAIN Modules

RECURSIVE SeqsUpTo(_, _)
SeqsUpTo(S, n) ==
    IF n = 0 THEN {<<>>}
    ELSE LET shorter == SeqsUpTo(S, n - 1)
         IN  shorter \cup {Append(s, x) : s \in {t \in shorter : Len(t) = n - 1}, x \in S}

\* the registry lists adaptor loading is explored with
Registries == SeqsUpTo(ModuleNames, MaxRegistry)

\* the registry lists resolution is explored with: lists of the adaptors
\* that load without a failure
DispatchModules == {"saga.adaptors.ssh.ssh_job", "mod_a", "mod_b", "mod_beta"}
DispatchRegistries == SeqsUpTo(DispatchModules, MaxRegistry)

(***************************************************************************)
(* Engine._load_adaptors                                                   *)
(***************************************************************************)

\* The object Adaptor() returns for the i-th entry of the registry list.
\* Every call of Adaptor() yields a new object, so the position is part of
\* its identity.
AdaptorInstance(i, module_name) == [module |-> module_name, pos |-> i]

\* getattr (adaptor_module, cpi_classname)
CpiClass(module_name, cpi_classname) == [module |-> module_name, class |-> cpi_classname]

Info(cpi_class, adaptor_instance) ==
    [cpi_class |-> cpi_class, adaptor_instance |-> adaptor_instance]

\* A loader state: the registry table built so far and the exception that
\* left the loader, if any.
LoadState(table, raised) == [cpis |-> table, raised |-> raised]

\* if not info in self._cpis[cpi_type][cpi_schema] : ....append (info)
AppendInfo(infos, info) ==
    IF \E k \in 1..Len(infos) : infos[k] = info THEN infos ELSE Append(infos, info)

\* engine.py 302-321: one pass of the body of the schema loop, after getattr
RegisterInfo(table, cpi_type, cpi_schema, info) ==
    LET t1 == IF cpi_type \in DOMAIN table THEN table
              ELSE table @@ (cpi_type :> <<>>)
        byschema == t1[cpi_type]
        b1 == IF cpi_schema \in DOMAIN byschema THEN byschema
              ELSE byschema @@ (cpi_schema :> <<>>)
        b2 == [b1 EXCEPT ![cpi_schema] = AppendInfo(@, info)]
    IN  [t1 EXCEPT ![cpi_type] = b2]

\* for cpi_schema in cpi_schemas : ...   (from the k-th schema on)
RECURSIVE LoadSchemas(_, _, _, _, _, _)
LoadSchemas(st, i, module_name, cpi_info, k, classes) ==
    IF st.raised # None \/ k > Len(cpi_info.schemas) THEN st
    ELSE LET cpi_schema == Lower(cpi_info.schemas[k])
         IN  IF cpi_info.class \notin classes
             THEN LoadState(st.cpis, "AttributeError")
             ELSE LoadSchemas(
                      LoadState(RegisterInfo(st.cpis, cpi_info.type, cpi_schema,
                                    Info(CpiClass(module_name, cpi_info.class),
                                         AdaptorInstance(i, module_name))),
                                None),
                      i, module_name, cpi_info, k + 1, classes)

\* for cpi_info in adaptor_info['cpis'] : ...   (from the j-th cpi on)
RECURSIVE LoadCpis(_, _, _, _, _, _)
LoadCpis(st, i, module_name, cpi_infos, j, classes) ==
    IF st.raised # None \/ j > Len(cpi_infos) THEN st
    ELSE LET cpi_info == cpi_infos[j]
             complete == /\ "type"    \in DOMAIN cpi_info
                         /\ "class"   \in DOMAIN cpi_info
                         /\ "schemas" \in DOMAIN cpi_info
             st1 == IF complete
                    THEN LoadSchemas(st, i, module_name, cpi_info, 1, classes)
                    ELSE st
         IN  LoadCpis(st1, i, module_name, cpi_infos, j + 1, classes)

\* variant: the version is tested without lower ()
IsBetaVersion_NoLower(adaptor_version) ==
    \/ Contains(S_alpha, adaptor_version)
    \/ Contains(S_beta,  adaptor_version)

\* 'alpha' in adaptor_version.lower() or 'beta' in adaptor_version.lower()
IsBetaVersion(adaptor_version) ==
    \/ Contains(S_alpha, Lower(adaptor_version))
    \/ Contains(S_beta,  Lower(adaptor_version))

\* The body of the loop over the registry list for its i-th entry.
LoadModule(st, i, module_name, betas) ==
    LET mod  == Modules[module_name]
        adaptor_info == mod.info
    IN  IF ~mod.import THEN st
        ELSE IF mod.adaptor = "raise" \/ mod.register = "raise" THEN st
        ELSE IF mod.register = "None" THEN st
        ELSE IF \/ "name"    \notin DOMAIN adaptor_info
                \/ "cpis"    \notin DOMAIN adaptor_info
                \/ "version" \notin DOMAIN adaptor_info THEN st
        ELSE IF ~betas /\ IsBetaVersion(adaptor_info.version) THEN st
        ELSE IF mod.enabled = "raise" THEN LoadState(st.cpis, "KeyError")
        ELSE IF mod.enabled = "False" THEN st
        ELSE LoadCpis(st, i, module_name, adaptor_info.cpis, 1, mod.classes)

\* for module_name in registry : ...   (from the i-th entry on)
RECURSIVE LoadFrom(_, _, _, _)
LoadFrom(st, registry, i, betas) ==
    IF st.raised # None \/ i > Len(registry) THEN st
    ELSE LoadFrom(LoadModule(st, i, registry[i], betas), registry, i + 1, betas)

\* _load_adaptors () as called from Engine.__init__, where self._cpis = {}
LoadAdaptors(registry, betas) == LoadFrom(LoadState(<<>>, None), registry, 1, betas)

(***************************************************************************)
(* Engine.find_adaptors and Engine.get_adaptor                             *)
(***************************************************************************)

\* adaptor_instance.get_name () : the 'name' of the info the adaptor was
\* built from
get_name(adaptor_instance) == Modules[adaptor_instance.module].info.name

\* The candidate list both lookups consider: self._cpis[ctype][schema] after
\* schema = schema.lower (), or no list at all.
NoList == [found |-> FALSE, infos |-> <<>>]

\* variant: the scheme is looked up as given, without schema.lower ()
Candidates_NoLower(table, ctype, schema) ==
    IF ctype \notin DOMAIN table THEN NoList
    ELSE IF schema \notin DOMAIN table[ctype] THEN NoList
    ELSE [found |-> TRUE, infos |-> table[ctype][schema]]

Candidates(table, ctype, schema) ==
    LET lschema == Lower(schema)
    IN  IF ctype \notin DOMAIN table THEN NoList
        ELSE IF lschema \notin DOMAIN table[ctype] THEN NoList
        ELSE [found |-> TRUE, infos |-> table[ctype][lschema]]

find_adaptors(table, ctype, schema) ==
    LET c == Candidates(table, ctype, schema)
    IN  IF ~c.found THEN <<>>
        ELSE [k \in 1..Len(c.infos) |-> get_name(c.infos[k].adaptor_instance)]

\* What an implementation class does with the arguments of one call:
\*   "ctor_raise"  : cpi_class (api_instance, adaptor_instance) raises
\*   "reject"      : init_instance raises, and so does init_instance_async
\*   "reject_late" : init_instance raises; init_instance_async returns a
\*                   Task which ends FAILED
\*   "accept"      : init_instance returns; init_instance_async returns a
\*                   Task which ends DONE
Outcomes == {"ctor_raise", "reject", "reject_late", "accept"}

\* variant: the failure of init_instance goes unnoticed
SyncRaises_Swallowed(o) == FALSE

SyncRaises(o) == o \in {"reject", "reject_late"}

\* variant: the failure of init_instance_async goes unnoticed
AsyncRaises_Swallowed(o) == FALSE

AsyncRaises(o) == o = "reject"

TaskFinal(o) == IF o = "accept" THEN "DONE" ELSE "FAILED"

\* what get_adaptor did so far: the rejection text, and the candidates
\* (by position) on which each constructor was invoked
NoTrace == [msg |-> <<>>, constructed |-> <<>>, inited |-> <<>>, asynced |-> <<>>]

\* "%s.%s: %s" % (adaptor_name, cpi_class, str(e))
Reason(info, e) == [adaptor_name |-> get_name(info.adaptor_instance),
                    cpi_class    |-> info.cpi_class,
                    error        |-> e]

\* variant: msg = ... instead of msg += ...
AddReason_Overwrite(msg, m) == <<m>>

\* msg += "\n  %s" % m
AddReason(msg, m) == Append(msg, m)

\* variant: the name of the adaptor is not compared
NameMatches_Any(requested_name, adaptor_name) == TRUE

\* requested_name == adaptor_name
NameMatches(requested_name, adaptor_name) == requested_name = adaptor_name

\* the two ways get_adaptor ends: it returns the k-th candidate's instance
\* (or the Task its asynchronous constructor returned), or it raises
Returned(kind, k, task_final, tr) ==
    [kind |-> kind, idx |-> k, task |-> task_final, exc |-> None,
     text |-> None, trace |-> tr]
Raised(exc, text, tr) ==
    [kind |-> "raise", idx |-> 0, task |-> None, exc |-> exc,
     text |-> text, trace |-> tr]

\* for info in self._cpis[ctype][schema] : ...   (from the k-th info on)
RECURSIVE GetAdaptorFrom(_, _, _, _, _, _)
GetAdaptorFrom(infos, k, ttype, requested_name, beh, tr) ==
    IF k > Len(infos)
    THEN Raised("NotImplemented", "No suitable adaptor found", tr)
    ELSE
      LET info == infos[k]
          o    == beh[info.cpi_class]
          adaptor_name == get_name(info.adaptor_instance)
          tr1  == [tr EXCEPT !.constructed = Append(@, k)]
      IN  IF o = "ctor_raise"
          THEN GetAdaptorFrom(infos, k + 1, ttype, requested_name, beh,
                   [tr1 EXCEPT !.msg = AddReason(@, Reason(info, "cpi_class"))])
          ELSE IF requested_name # None
          THEN IF NameMatches(requested_name, adaptor_name)
               THEN Returned("cpi_instance", k, None, tr1)
               ELSE GetAdaptorFrom(infos, k + 1, ttype, requested_name, beh, tr1)
          ELSE IF ttype = None
          THEN LET tr2 == [tr1 EXCEPT !.inited = Append(@, k)]
               IN  IF SyncRaises(o)
                   THEN GetAdaptorFrom(infos, k + 1, ttype, requested_name, beh,
                            [tr2 EXCEPT !.msg = AddReason(@, Reason(info, "init_instance"))])
                   ELSE Returned("cpi_instance", k, None, tr2)
          ELSE LET tr2 == [tr1 EXCEPT !.asynced = Append(@, k)]
               IN  IF AsyncRaises(o)
                   THEN GetAdaptorFrom(infos, k + 1, ttype, requested_name, beh,
                            [tr2 EXCEPT !.msg = AddReason(@, Reason(info, "init_instance_async"))])
                   ELSE Returned("task", k, TaskFinal(o), tr2)

\* variant: without the two membership tests the lookup of a missing key
\* raises KeyError
get_adaptor_NoEntryCheck(table, ctype, schema, ttype, requested_name, beh) ==
    LET c == Candidates(table, ctype, schema)
    IN  IF ~c.found
        THEN Raised("KeyError", None, NoTrace)
        ELSE GetAdaptorFrom(c.infos, 1, ttype, requested_name, beh, NoTrace)

get_adaptor(table, ctype, schema, ttype, requested_name, beh) ==
    LET c == Candidates(table, ctype, schema)
    IN  IF ~c.found
        THEN Raised("NotImplemented", "No adaptor class found", NoTrace)
        ELSE GetAdaptorFrom(c.infos, 1, ttype, requested_name, beh, NoTrace)

\* the arguments the calls are made with
CTypes   == {T_Service, T_Job}
Schemas  == {S_ssh, S_Ssh, S_ftp}
TTypes   == {None, "ASYNC"}
Names    == {None, "b"}

ClassesOf(infos) == {infos[k].cpi_class : k \in 1..Len(infos)}

\* in the re-bind path only the instantiation of the class is attempted
OutcomesFor(requested_name) ==
    IF requested_name = None THEN Outcomes ELSE {"ctor_raise", "accept"}

NoCall == [op |-> "none"]

\* Engine.__init__ : self._cpis = {} ... self._load_adaptors ()
EngineInit ==
    /\ phase = "new"
    /\ LET st == LoadAdaptors(adaptor_registry, allow_betas)
       IN  /\ cpis' = st.cpis
           /\ load_outcome' = IF st.raised = None THEN "returned" ELSE st.raised
           /\ phase' = IF st.raised = None THEN "ready" ELSE "failed"
    /\ UNCHANGED <<adaptor_registry, allow_betas, call, threads>>
    /\ UNCHANGED jobvars

\* a caller invokes engine.find_adaptors (ctype, schema)
FindAdaptors ==
    /\ phase = "ready"
    /\ call = NoCall
    /\ \E ctype \in CTypes, schema \in Schemas :
          call' = [op |-> "find_adaptors", ctype |-> ctype, schema |-> schema,
                   ret |-> find_adaptors(cpis, ctype, schema)]
    /\ UNCHANGED <<adaptor_registry, allow_betas, cpis, phase, load_outcome, threads>>
    /\ UNCHANGED jobvars

\* a caller invokes engine.get_adaptor (api, ctype, schema, ttype, requested_name, ...)
GetAdaptor ==
    /\ phase = "ready"
    /\ call = NoCall
    /\ \E ctype \in CTypes, schema \in Schemas, ttype \in TTypes,
          requested_name \in Names :
          \E beh \in [ClassesOf(Candidates(cpis, ctype, schema).infos)
                         -> OutcomesFor(requested_name)] :
             call' = [op |-> "get_adaptor", ctype |-> ctype, schema |-> schema,
                      ttype |-> ttype, requested_name |-> requested_name,
                      beh |-> beh,
                      ret |-> get_adaptor(cpis, ctype, schema, ttype,
                                          requested_name, beh)]
    /\ UNCHANGED <<adaptor_registry, allow_betas, cpis, phase, load_outcome, threads>>
    /\ UNCHANGED jobvars

\* the caller has taken the result; the engine is ready for the next call
Return ==
    /\ call # NoCall
    /\ call' = NoCall
    /\ UNCHANGED <<adaptor_registry, allow_betas, cpis, phase, load_outcome, threads>>
    /\ UNCHANGED jobvars

(***************************************************************************)
(* Concurrent callers of one engine.  Each caller runs get_adaptor one     *)
(* pass of its loop body at a time, or find_adaptors; every pass reads the *)
(* registry as it is at that moment.                                       *)
(***************************************************************************)
MaxConcRegistry == 2    \* longest registry list the concurrent calls run on

Threads == {"t1", "t2"}

Idle == [pc |-> "idle"]

NoThreads == [t \in Threads |-> Idle]

\* the registry lists and arguments the concurrent calls are explored with
ConcRegistries == SeqsUpTo({"mod_a", "mod_b"}, MaxConcRegistry)
ConcSchemas    == {S_Ssh, S_ftp}
ConcOutcomes   == {"reject", "accept"}

Done(th, r) ==
    [pc |-> "done", op |-> th.op, ctype |-> th.ctype, schema |-> th.schema,
     ttype |-> th.ttype, requested_name |-> th.requested_name, beh |-> th.beh,
     overlapped |-> th.overlapped, ret |-> r]

\* the first statements of get_adaptor: schema.lower () and the two
\* membership tests; the loop is entered with the first info
ThreadEnter(table, th) ==
    IF ~Candidates(table, th.ctype, th.schema).found
    THEN Done(th, get_adaptor(table, th.ctype, th.schema, th.ttype,
                              th.requested_name, th.beh))
    ELSE [pc |-> "loop", op |-> th.op, ctype |-> th.ctype, schema |-> th.schema,
          ttype |-> th.ttype, requested_name |-> th.requested_name,
          beh |-> th.beh, overlapped |-> th.overlapped,
          k |-> 1, trace |-> NoTrace]

\* variant: a candidate that raised is taken out of the registry list
ThreadIterate_Removes(table, th) ==
    LET infos == Candidates(table, th.ctype, th.schema).infos
        upto  == IF th.k > Len(infos) THEN Len(infos) ELSE th.k
        r     == GetAdaptorFrom(SubSeq(infos, 1, upto), th.k, th.ttype,
                                th.requested_name, th.beh, th.trace)
    IN  IF th.k > Len(infos) \/ r.kind # "raise"
        THEN [th |-> Done(th, r), cpis |-> table]
        ELSE [th   |-> [th EXCEPT !.k = @ + 1, !.trace = r.trace],
              cpis |-> [table EXCEPT ![th.ctype][Lower(th.schema)] =
                           SubSeq(@, 1, th.k - 1) \o SubSeq(@, th.k + 1, Len(@))]]

\* one pass of "for info in self._cpis[ctype][schema]" on the k-th info of
\* the list as it is now, or the raise that follows the loop; the pass
\* assigns nothing in self._cpis
ThreadIterate(table, th) ==
    LET infos == Candidates(table, th.ctype, th.schema).infos
        upto  == IF th.k > Len(infos) THEN Len(infos) ELSE th.k
        r     == GetAdaptorFrom(SubSeq(infos, 1, upto), th.k, th.ttype,
                                th.requested_name, th.beh, th.trace)
    IN  IF th.k > Len(infos) \/ r.kind # "raise"
        THEN [th |-> Done(th, r), cpis |-> table]
        ELSE [th   |-> [th EXCEPT !.k = @ + 1, !.trace = r.trace],
              cpis |-> table]

\* another caller is in the middle of its loop
OthersInLoop(t) ==
    \E u \in Threads \ {t} : threads[u].pc = "loop" /\ threads[u].k > 1

\* a thread calls engine.find_adaptors (ctype, schema)
ThreadFindAdaptors(t) ==
    /\ phase = "ready"
    /\ threads[t] = Idle
    /\ \E schema \in ConcSchemas :
          threads' = [threads EXCEPT ![t] =
              [pc |-> "done", op |-> "find_adaptors", ctype |-> T_Service,
               schema |-> schema, overlapped |-> OthersInLoop(t),
               ret |-> find_adaptors(cpis, T_Service, schema)]]
    /\ UNCHANGED <<adaptor_registry, allow_betas, cpis, phase, load_outcome, call>>
    /\ UNCHANGED jobvars

\* a thread calls engine.get_adaptor and reaches the loop
ThreadGetAdaptor(t) ==
    /\ phase = "ready"
    /\ threads[t] = Idle
    /\ \E schema \in ConcSchemas, ttype \in TTypes :
         \E beh \in [ClassesOf(Candidates(cpis, T_Service, schema).infos)
                        -> ConcOutcomes] :
            threads' = [threads EXCEPT ![t] =
                ThreadEnter(cpis, [op |-> "get_adaptor", ctype |-> T_Service,
                                   schema |-> schema, ttype |-> ttype,
                                   requested_name |-> None, beh |-> beh,
                                   overlapped |-> FALSE])]
    /\ UNCHANGED <<adaptor_registry, allow_betas, cpis, phase, load_outcome, call>>
    /\ UNCHANGED jobvars

\* a thread runs one pass of the loop of get_adaptor
ThreadStep(t) ==
    /\ threads[t].pc = "loop"
    /\ LET th == [threads[t] EXCEPT !.overlapped = @ \/ OthersInLoop(t)]
           n  == ThreadIterate(cpis, th)
       IN  /\ threads' = [threads EXCEPT ![t] = n.th]
           /\ cpis' = n.cpis
    /\ UNCHANGED <<adaptor_registry, allow_betas, phase, load_outcome, call>>
    /\ UNCHANGED jobvars


(***************************************************************************)
(* The ssh job adaptor (saga/adaptors/ssh/ssh_job.py): SSHJobService and   *)
(* SSHJob.                                                                 *)
(*                                                                         *)
(* The module imports which, pty_process, saga.adaptors.cpi.* and time     *)
(* only; run () and cancel () use the names os, signal, subprocess and     *)
(* JobId.  names_bound tells whether these four names are bound in the     *)
(* module's namespace when a method runs: FALSE is the module as it is     *)
(* written (every use raises NameError), TRUE is the module with the names *)
(* it relies on.  Both are explored.                                       *)
(***************************************************************************)
MaxTime   == 2          \* time.time () runs from 0 to MaxTime
MaxStarts == 2          \* native processes started on behalf of the job

\* saga.job states
\* saga.job.NEW (NEW is a reserved word)
New      == "New"
RUNNING  == "Running"
DONE     == "Done"
FAILED   == "Failed"
CANCELED == "Canceled"

\* a Python value that may be None: Absent is None, Some (v) is v
Absent  == <<>>
Some(v) == <<v>>

\* an exception object: its class and what its message tells
Exc(type, text) == Some([type |-> type, text |-> text])

\* _ADAPTOR_CAPABILITIES : the keys the adaptor declares (attribute names
\* are those of the job description's fields)
ADAPTOR_CAPABILITIES ==
    [ jdes_attributes |-> {"executable", "arguments", "environment",
                           "input", "output", "error"},
      job_attributes  |-> {"exit_code", "execution_hosts", "created",
                           "started", "finished"},
      metrics         |-> {"state", "state_detail"},
      contexts        |-> {"ssh", "x509", "userpass"} ]

\* the files and programs of the host
AbsPaths == {"/tmp/out.txt"}
OnPath   == {"/bin/date"}

\* os.path.isabs (path)
IsAbs(path) == path \in AbsPaths

\* which (program) : the program's path, or None
Which(program) == IF program \in OnPath THEN program ELSE None

\* the job descriptions jobs are made from; only the attributes that
\* decide the control flow of create_job and run are kept
JobDescriptions ==
    [ executable        : {"/bin/date", "nosuchprogram"},
      output            : {None, "out.txt", "/tmp/out.txt"},
      error             : {None, "err.txt"},
      working_directory : {None, "/home/user"},
      spmd_variation    : {None, "MPI", "OpenMP"} ]

\* jd.list_attributes () : the attributes that are set
ListAttributes(jd) == {a \in DOMAIN jd : jd[a] # None}

\* SSHJobService._rm, as returned by get_url ()
Rm == "ssh://host"

NoJob     == [exists |-> FALSE]
\* signals counts the SIGTERMs the process group has received
NoProcess == [pid |-> 0, status |-> "none", rc |-> Absent, orphans |-> FALSE,
              signals |-> 0]

\* the part of the state the methods of the job and its service work on
World(j, p, m, n) == [job |-> j, process |-> p, jobs |-> m, started |-> n]

\* how a method ends: the state it leaves, the exception it raises (or
\* Absent), the value it returns and the values it assigned to _state
Ends(w, exc, ret, states) == [w |-> w, exc |-> exc, ret |-> ret, states |-> states]

\* self._parent_service._register_job (self) : the job is entered in the
\* service's map under its current id
register_job(m, j) == ("job" :> j.id) @@ m

\* SSHJob.init_instance (job_info)
init_instance(w, jd) ==
    LET j == [ exists    |-> TRUE,
               jd        |-> jd,
               id        |-> Absent,
               state     |-> New,
               exit_code |-> Absent,
               exception |-> Absent,
               started   |-> Absent,
               finished  |-> Absent,
               process   |-> Absent ]
    IN  Ends([w EXCEPT !.job = j, !.jobs = register_job(w.jobs, j)],
             Absent, Some("job"), <<New>>)

\* SSHJobService.create_job (jd)
create_job(w, jd) ==
    IF ListAttributes(jd) = {}
    THEN init_instance(w, jd)
    ELSE IF "desc_attributes" \notin DOMAIN ADAPTOR_CAPABILITIES
    THEN Ends(w, Exc("KeyError", "desc_attributes"), Absent, <<>>)
    ELSE IF \E a \in ListAttributes(jd) :
                a \notin ADAPTOR_CAPABILITIES["desc_attributes"]
    THEN Ends(w, Exc("BadParameter", "not supported by this adaptor"), Absent, <<>>)
    ELSE init_instance(w, jd)

\* self._process.poll () : the return code, or Absent while the process runs;
\* an exited process is reaped
Poll(p) ==
    IF p.status = "running" THEN [rc |-> Absent, process |-> p]
    ELSE [rc |-> p.rc, process |-> [p EXCEPT !.status = "reaped"]]

\* os.killpg (pid, signal.SIGTERM) finds a process to signal: the process
\* itself, running or not yet reaped, or another member of its group
GroupExists(p) == p.status # "reaped" \/ p.orphans

\* the process after the signal: a running process ends by it
Killed(p) ==
    IF p.status = "running"
    THEN [p EXCEPT !.status = "zombie", !.rc = Some(-15), !.orphans = FALSE,
                   !.signals = @ + 1]
    ELSE [p EXCEPT !.orphans = FALSE, !.signals = @ + 1]

\* str (jid) of the JobId with the given native_id and backend_url
JobIdStr(backend_url, native_id) ==
    [backend_url |-> backend_url, native_id |-> native_id]


\* variant: the finish time is not recorded
get_state_NoFinished(w, tnow) ==
    LET j == w.job
    IN  IF j.state # RUNNING THEN Ends(w, Absent, Some(j.state), <<>>)
        ELSE
          LET r == Poll(w.process)
              s == IF r.rc = Some(0) THEN DONE ELSE FAILED
          IN  IF r.rc = Absent
              THEN Ends([w EXCEPT !.job.exit_code = Absent], Absent,
                        Some(RUNNING), <<>>)
              ELSE Ends([w EXCEPT !.process       = r.process,
                                  !.job.exit_code = r.rc,
                                  !.job.exception =
                                      IF r.rc # Some(0)
                                      THEN Exc("NoSuccess", "non-zero exit code")
                                      ELSE @,
                                  !.job.state     = s],
                        Absent, Some(s), <<s>>)

\* SSHJob.get_state ()
get_state(w, tnow) ==
    LET j == w.job
    IN  IF j.state # RUNNING THEN Ends(w, Absent, Some(j.state), <<>>)
        ELSE
          LET r == Poll(w.process)
              s == IF r.rc = Some(0) THEN DONE ELSE FAILED
          IN  IF r.rc = Absent
              THEN Ends([w EXCEPT !.job.exit_code = Absent], Absent,
                        Some(RUNNING), <<>>)
              ELSE Ends([w EXCEPT !.process       = r.process,
                                  !.job.exit_code = r.rc,
                                  !.job.exception =
                                      IF r.rc # Some(0)
                                      THEN Exc("NoSuccess", "non-zero exit code")
                                      ELSE @,
                                  !.job.state     = s,
                                  !.job.finished  = Some(tnow)],
                        Absent, Some(s), <<s>>)

\* SSHJob.re_raise ()
re_raise(j) == j.exception

\* variant: wait () without the test of self._process
wait_enter_NoCheck(w, timeout) == Ends(w, Absent, Absent, <<>>)

\* the first statement of SSHJob.wait (timeout) : a job without a process
\* cannot be waited for
wait_enter(w, timeout) ==
    IF w.job.process = Absent
    THEN Ends(w, Exc("IncorrectState", "Can't wait for job that has not been started"),
              Absent, <<>>)
    ELSE Ends(w, Absent, Absent, <<>>)

\* variant: the poll of wait () moves the job to its final state as
\* get_state () does
wait_poll_SetsState(w) ==
    LET r == Poll(w.process)
    IN  IF r.rc = Absent
        THEN Ends([w EXCEPT !.job.exit_code = Absent], Absent, Absent, <<>>)
        ELSE Ends([w EXCEPT !.process = r.process, !.job.exit_code = r.rc,
                            !.job.state = IF r.rc = Some(0) THEN DONE ELSE FAILED],
                  Absent, r.rc, <<IF r.rc = Some(0) THEN DONE ELSE FAILED>>)

\* self._exit_code = self._process.poll () in the loop of wait (timeout),
\* and self._exit_code = self._process.wait () once the process has exited
wait_poll(w) ==
    LET r == Poll(w.process)
    IN  Ends([w EXCEPT !.process = r.process, !.job.exit_code = r.rc],
             Absent, r.rc, <<>>)

\* "if timeout and seconds_passed > timeout" : a timeout of 0 is false
TimedOut(timeout, t_beginning, tnow) ==
    /\ timeout # 0
    /\ tnow - t_beginning > timeout

\* SSHJob.cancel (timeout)
cancel(w, bound) ==
    IF ~bound
    THEN Ends(w, Exc("NameError", "os"), Absent, <<>>)
    ELSE IF w.job.process = Absent
    THEN Ends(w, Exc("AttributeError", "pid"), Absent, <<>>)
    ELSE IF ~GroupExists(w.process)
    THEN Ends(w, Exc("IncorrectState", "Couldn't cancel job"), Absent, <<>>)
    ELSE LET p == Killed(w.process)
         IN  Ends([w EXCEPT !.process       = [p EXCEPT !.status = "reaped"],
                            !.job.exit_code = p.rc,
                            !.job.state     = CANCELED],
                  Absent, Absent, <<CANCELED>>)

\* the "check if we want to write stdout to a file" part of run (): the
\* exception it ends with, or Absent
OpenOutput(jd, bound, files_ok) ==
    IF jd.output = None THEN Absent
    ELSE IF ~bound THEN Exc("NameError", "os")
    ELSE IF IsAbs(jd.output) THEN Exc("NameError", "jd")
    ELSE IF ~files_ok THEN Exc("IOError", "output")
    ELSE Absent

\* the "check if we want to write stderr to a file" part of run ()
OpenError(jd, bound, files_ok) ==
    IF jd.error = None THEN Absent
    ELSE IF ~bound THEN Exc("NameError", "os")
    ELSE IF ~IsAbs(jd.error) /\ jd.working_directory # None
    THEN Exc("AttributeError", "cwd")
    ELSE IF ~files_ok THEN Exc("IOError", "error")
    ELSE Absent

\* the "check if we want to execute via mpirun" part of run (): the test
\* reads jd, which is no name of run ()
CheckSpmd(jd) ==
    IF jd.spmd_variation # None THEN Exc("NameError", "jd") ELSE Absent

\* "check if executable exists"; use_mpirun is False when this is reached
CheckExecutable(jd) ==
    IF Which(jd.executable) = None
    THEN Exc("BadParameter", "Executable doesn't exist or is not in the path")
    ELSE Absent

\* variant: the failure to start is raised but not kept
StartFailed_NotStored(w) ==
    LET e == Exc("NoSuccess", "Starting process failed")
    IN  Ends([w EXCEPT !.job.state = FAILED], e, Absent, <<FAILED>>)

\* the except clause of run ()
StartFailed(w) ==
    LET e == Exc("NoSuccess", "Starting process failed")
    IN  Ends([w EXCEPT !.job.exception = e, !.job.state = FAILED],
             e, Absent, <<FAILED>>)

\* variant: the job keeps the id it had
Started_NoId(w, tnow) ==
    LET pid == w.started + 1
        j   == [w.job EXCEPT !.process = Some(pid), !.state = RUNNING,
                             !.started = Some(tnow)]
    IN  Ends(World(j,
                   [pid |-> pid, status |-> "running", rc |-> Absent,
                    orphans |-> FALSE, signals |-> 0],
                   register_job(w.jobs, j), w.started + 1),
             Absent, Absent, <<RUNNING>>)

\* the try block of run () when subprocess.Popen returns a process
Started(w, tnow) ==
    LET pid == w.started + 1
        j   == [w.job EXCEPT !.process = Some(pid), !.state = RUNNING,
                             !.started = Some(tnow),
                             !.id = Some(JobIdStr(Rm, pid))]
    IN  Ends(World(j,
                   [pid |-> pid, status |-> "running", rc |-> Absent,
                    orphans |-> FALSE, signals |-> 0],
                   register_job(w.jobs, j), w.started + 1),
             Absent, Absent, <<RUNNING>>)

\* run () gets as far as the try block
ReachesStart(jd, bound, files_ok) ==
    /\ OpenOutput(jd, bound, files_ok) = Absent
    /\ OpenError(jd, bound, files_ok) = Absent
    /\ CheckSpmd(jd) = Absent
    /\ CheckExecutable(jd) = Absent

\* SSHJob.run () ; files_ok and popen_ok tell whether open () and
\* subprocess.Popen () succeed on the host
run(w, bound, tnow, files_ok, popen_ok) ==
    LET jd == w.job.jd
        e1 == OpenOutput(jd, bound, files_ok)
        e2 == OpenError(jd, bound, files_ok)
        e3 == CheckSpmd(jd)
        e4 == CheckExecutable(jd)
    IN  IF e1 # Absent THEN Ends(w, e1, Absent, <<>>)
        ELSE IF e2 # Absent THEN Ends(w, e2, Absent, <<>>)
        ELSE IF e3 # Absent THEN Ends(w, e3, Absent, <<>>)
        ELSE IF e4 # Absent THEN Ends(w, e4, Absent, <<>>)
        ELSE IF ~bound \/ ~popen_ok THEN StartFailed(w)
        ELSE Started(w, tnow)

\* job calls: none made yet
NoJobCall == [op |-> "none", pc |-> "done"]

\* the record of a call that has ended
Ended(op, arg, r) ==
    [op |-> op, pc |-> "done", arg |-> arg,
     exc |-> r.exc, ret |-> r.ret, states |-> r.states]

TheWorld == World(job, process, jobs, started)

\* the state a method leaves
Leaves(w) ==
    /\ job' = w.job
    /\ process' = w.process
    /\ jobs' = w.jobs
    /\ started' = w.started

enginevars == <<adaptor_registry, allow_betas, cpis, phase, load_outcome, call, threads,
                servicevars>>

Timeouts == {-1, 0, 1}

\* a caller invokes service.create_job (jd)
CreateJob ==
    /\ ~job.exists
    /\ jcall.pc = "done"
    /\ \E jd \in JobDescriptions :
          LET r == create_job(TheWorld, jd)
          IN  /\ Leaves(r.w)
              /\ jcall' = Ended("create_job", Some(jd), r)
    /\ UNCHANGED <<names_bound, now>>
    /\ UNCHANGED enginevars

\* the job object is built for a job description: SSHJob.init_instance
JobInitInstance ==
    /\ ~job.exists
    /\ jcall.pc = "done"
    /\ \E jd \in JobDescriptions :
          LET r == init_instance(TheWorld, jd)
          IN  /\ Leaves(r.w)
              /\ jcall' = Ended("init_instance", Some(jd), r)
    /\ UNCHANGED <<names_bound, now>>
    /\ UNCHANGED enginevars

\* a caller invokes job.run ()
Run ==
    /\ job.exists
    /\ jcall.pc = "done"
    /\ started < MaxStarts
    /\ \E files_ok \in BOOLEAN, popen_ok \in BOOLEAN :
          LET r == run(TheWorld, names_bound, now, files_ok, popen_ok)
          IN  /\ Leaves(r.w)
              /\ jcall' = Ended("run", [files_ok |-> files_ok,
                                        popen_ok |-> popen_ok], r)
    /\ UNCHANGED <<names_bound, now>>
    /\ UNCHANGED enginevars

\* a caller invokes job.get_state ()
GetState ==
    /\ job.exists
    /\ jcall.pc = "done"
    /\ LET r == get_state(TheWorld, now)
       IN  /\ Leaves(r.w)
           /\ jcall' = Ended("get_state", Absent, r)
    /\ UNCHANGED <<names_bound, now>>
    /\ UNCHANGED enginevars

\* a caller invokes job.wait (timeout): the test of the process, and
\* t_beginning = time.time ()
Wait ==
    /\ job.exists
    /\ jcall.pc = "done"
    /\ \E timeout \in Timeouts :
          LET r == wait_enter(TheWorld, timeout)
          IN  /\ Leaves(r.w)
              /\ jcall' = IF r.exc # Absent
                          THEN Ended("wait", timeout, r)
                          ELSE [op |-> "wait", pc |-> "waiting", arg |-> timeout,
                                t_beginning |-> now]
    /\ UNCHANGED <<names_bound, now>>
    /\ UNCHANGED enginevars

\* wait (timeout) goes on: self._process.wait () returns once the process
\* has exited; the loop polls, and ends on an exit code or on the timeout
WaitPoll ==
    /\ jcall.pc = "waiting"
    /\ jcall.arg = -1 => process.status # "running"
    /\ LET r == wait_poll(TheWorld)
       IN  /\ Leaves(r.w)
           /\ jcall' = IF \/ r.ret # Absent
                          \/ /\ jcall.arg # -1
                             /\ TimedOut(jcall.arg, jcall.t_beginning, now)
                       THEN Ended("wait", jcall.arg, r)
                       ELSE jcall
    /\ UNCHANGED <<names_bound, now>>
    /\ UNCHANGED enginevars

\* a caller invokes job.cancel (timeout)
Cancel ==
    /\ job.exists
    /\ jcall.pc = "done"
    /\ \E timeout \in Timeouts :
          LET r == cancel(TheWorld, names_bound)
          IN  /\ Leaves(r.w)
              /\ jcall' = Ended("cancel", timeout, r)
    /\ UNCHANGED <<names_bound, now>>
    /\ UNCHANGED enginevars

\* the native process of the job ends by itself, with a return code; other
\* processes of its group may stay behind
ProcessExits ==
    /\ process.status = "running"
    /\ \E rc \in {0, 1}, orphans \in BOOLEAN :
          process' = [process EXCEPT !.status = "zombie", !.rc = Some(rc),
                                     !.orphans = orphans]
    /\ UNCHANGED <<names_bound, job, jobs, now, started, jcall>>
    /\ UNCHANGED enginevars

\* time passes
Tick ==
    /\ now < MaxTime
    /\ now' = now + 1
    /\ UNCHANGED <<names_bound, job, process, jobs, started, jcall>>
    /\ UNCHANGED enginevars

(***************************************************************************)
(* The remote shell session of an ssh job service: the pty that            *)
(* SSHJobService.init_instance opens and drives.                           *)
(***************************************************************************)
\* the most lines of output a connection produces; the most RUN requests
\* followed
MaxOutput == 3
MaxRuns == 2

\* what the connection prints, by what it matches: a password challenge, a
\* host-key confirmation request, the login banner, the sentinel prompt,
\* the ready marker of the wrapper; "silence" is a bounded wait that goes by
\* with no further output
PtyEvents == {"password", "hostkey", "banner", "prompt", "CMD", "silence"}

\* the patterns of the handshake, in the order of their indices 0, 1, 2
HandshakePatterns == <<"password", "hostkey", "banner">>

\* pty_process (...): a connection that is alive, will print `out', and has
\* been written nothing; the driver has not read from it
NewPty(out) ==
    [pc |-> "new", alive |-> TRUE, out |-> out, n |-> Absent, cmd |-> Absent,
     written |-> <<>>, i |-> 0]

\* pty.findline (patterns) and pty.findstring (patterns, timeout): read up
\* to the first output that matches one of the patterns, and return the
\* index of the pattern, counted from 0; None when the wait goes by, the
\* output ends or the connection is dead.  Returns the index and what is
\* left to read.
findline(p, patterns) ==
    LET stops == {j \in 1..Len(p.out) :
                     \/ p.out[j] = "silence"
                     \/ \E x \in 1..Len(patterns) : patterns[x] = p.out[j]}
    IN  IF ~p.alive \/ stops = {}
        THEN [n |-> Absent, out |-> <<>>]
        ELSE LET j    == CHOOSE s \in stops : \A t \in stops : s <= t
                 rest == SubSeq(p.out, j + 1, Len(p.out))
             IN  IF p.out[j] = "silence"
                 THEN [n |-> Absent, out |-> rest]
                 ELSE [n   |-> Some((CHOOSE x \in 1..Len(patterns) :
                                         patterns[x] = p.out[j]) - 1),
                       out |-> rest]

\* SSHJobService.init_instance up to its loop: opens the connection and
\* matches the three patterns for the first time
ServiceInitInstance ==
    /\ pty.pc = "new"
    /\ LET r == findline(pty, HandshakePatterns)
       IN  pty' = [pty EXCEPT !.pc = "handshake", !.n = r.n, !.out = r.out]
    /\ UNCHANGED <<cjobs, cprocs>>
    /\ UNCHANGED <<names_bound, job, process, jobs, now, started, jcall>>
    /\ UNCHANGED <<adaptor_registry, allow_betas, cpis, phase, load_outcome,
                   call, threads, filevars>>

\* one pass of `while find_prompt': answers a password challenge or a
\* host-key request and matches again; after the banner sets the prompt,
\* waits for it, leaves the loop, installs the wrapper and enters _run_job;
\* with n None no branch is taken and find_prompt stays True
Handshake ==
    /\ pty.pc = "handshake"
    /\ pty' =
         IF pty.n = Some(0)
         THEN LET r == findline(pty, HandshakePatterns)
              IN  [pty EXCEPT !.written = Append(@, "secret"),
                              !.n = r.n, !.out = r.out]
         ELSE IF pty.n = Some(1)
         THEN LET r == findline(pty, HandshakePatterns)
              IN  [pty EXCEPT !.written = Append(@, "yes"),
                              !.n = r.n, !.out = r.out]
         ELSE IF pty.n = Some(2)
         THEN LET r == findline(pty, <<"prompt">>)
              IN  [pty EXCEPT !.written = @ \o <<"export PS1", "wget", "/bin/sh">>,
                              !.n = r.n, !.out = r.out, !.pc = "run_job"]
         ELSE pty
    /\ UNCHANGED <<cjobs, cprocs>>
    /\ UNCHANGED <<names_bound, job, process, jobs, now, started, jcall>>
    /\ UNCHANGED <<adaptor_registry, allow_betas, cpis, phase, load_outcome,
                   call, threads, filevars>>

\* one pass of the loop of _run_job: while the connection is alive, waits
\* for the ready marker and writes the next RUN request; once it is dead,
\* _run_job and init_instance return
RunJob ==
    /\ pty.pc = "run_job"
    /\ pty.alive => pty.i < MaxRuns
    /\ pty' =
         IF pty.alive
         THEN LET r == findline(pty, <<"CMD">>)
              IN  [pty EXCEPT !.i = @ + 1, !.cmd = r.n, !.out = r.out,
                              !.written = Append(@, "RUN")]
         ELSE [pty EXCEPT !.pc = "returned"]
    /\ UNCHANGED <<cjobs, cprocs>>
    /\ UNCHANGED <<names_bound, job, process, jobs, now, started, jcall>>
    /\ UNCHANGED <<adaptor_registry, allow_betas, cpis, phase, load_outcome,
                   call, threads, filevars>>

\* the connection drops
ConnectionDies ==
    /\ pty.alive
    /\ pty.pc # "new"
    /\ pty' = [pty EXCEPT !.alive = FALSE]
    /\ UNCHANGED <<cjobs, cprocs>>
    /\ UNCHANGED <<names_bound, job, process, jobs, now, started, jcall>>
    /\ UNCHANGED <<adaptor_registry, allow_betas, cpis, phase, load_outcome,
                   call, threads, filevars>>

(***************************************************************************)
(* Several jobs of one ssh job service: its map of job ids, get_job, list  *)
(* and the bulk operations.                                                *)
(***************************************************************************)
\* the jobs a service is asked for
JobKeys == {"j1", "j2"}

\* the process ids the host hands out; the id of a reaped process is free
\* again
MaxPids == 2

\* the job descriptions of these jobs: an executable, found on the path or not
ContainerJds ==
    {jd \in JobDescriptions :
        \A a \in DOMAIN jd : a # "executable" => jd[a] = None}

\* the jobs of the service, their processes and its map of job ids
Container(cj, cp, m) == [cjobs |-> cj, cprocs |-> cp, jobs |-> m]

\* job k of the service as the methods of SSHJob see it; the next process
\* started gets the id pid
JobWorld(c, k, pid) ==
    World(c.cjobs[k], c.cprocs[k],
          IF k \in DOMAIN c.jobs THEN "job" :> c.jobs[k] ELSE <<>>,
          pid - 1)

\* the service after a method of job k has left w
Put(c, k, w) ==
    Container([c.cjobs EXCEPT ![k] = w.job],
              [c.cprocs EXCEPT ![k] = w.process],
              IF "job" \in DOMAIN w.jobs
              THEN (k :> w.jobs["job"]) @@ c.jobs
              ELSE c.jobs)

\* the process ids in use: those of the processes not reaped yet
PidsInUse(cp) ==
    {cp[k].pid : k \in {x \in JobKeys : cp[x].status \in {"running", "zombie"}}}

\* SSHJobService.container_run (jobs) : run () of each job in turn; an
\* exception of run () ends the loop and the call.  `ran' lists the jobs
\* whose run () was invoked, pids[k] is the process id job k would get.
RECURSIVE container_run(_, _, _, _, _)
container_run(c, joblist, bound, popen_ok, pids) ==
    IF joblist = <<>> THEN [c |-> c, exc |-> Absent, ran |-> <<>>]
    ELSE LET k  == Head(joblist)
             r  == run(JobWorld(c, k, pids[k]), bound, 0, TRUE, popen_ok)
             c1 == Put(c, k, r.w)
         IN  IF r.exc # Absent
             THEN [c |-> c1, exc |-> r.exc, ran |-> <<k>>]
             ELSE LET rest == container_run(c1, Tail(joblist), bound, popen_ok, pids)
                  IN  [rest EXCEPT !.ran = <<k>> \o @]

\* SSHJobService.container_wait (jobs, mode, timeout) : wait () of each job
\* in turn, without a timeout; an exception of wait () ends the loop and the
\* call.  `waited' lists the jobs whose wait () was invoked; the call blocks
\* while the process of the job it waits for runs.
RECURSIVE container_wait(_, _)
container_wait(c, joblist) ==
    IF joblist = <<>>
    THEN [c |-> c, exc |-> Absent, ran |-> <<>>, blocked |-> FALSE]
    ELSE LET k == Head(joblist)
             w == JobWorld(c, k, 1)
             e == wait_enter(w, -1)
         IN  IF e.exc # Absent
             THEN [c |-> c, exc |-> e.exc, ran |-> <<k>>, blocked |-> FALSE]
             ELSE IF c.cprocs[k].status = "running"
             THEN [c |-> c, exc |-> Absent, ran |-> <<k>>, blocked |-> TRUE]
             ELSE LET rest == container_wait(Put(c, k, wait_poll(w).w), Tail(joblist))
                  IN  [rest EXCEPT !.ran = <<k>> \o @]

\* SSHJobService.get_job (jobid) : the jobs the loop over the map can
\* return, the first entry with this id in the order of the dict; none when
\* the id is not among the values of the map, which raises BadParameter
get_job(m, jobid) == {k \in DOMAIN m : m[k] = jobid}

\* SSHJobService.list () : the ids of the map that are not None
list(m) == {m[k] : k \in DOMAIN m} \ {Absent}

\* the lists of jobs handed to a bulk operation
JobLists == {l \in SeqsUpTo(JobKeys, 2) : l # <<>> /\ (Len(l) = 2 => l[1] # l[2])}

TheContainer == Container(cjobs, cprocs, jobs)

SetContainer(c) ==
    /\ cjobs' = c.cjobs
    /\ cprocs' = c.cprocs
    /\ jobs' = c.jobs

\* the caller constructs job k of the service: SSHJob.init_instance
ContainerInitInstance(k) ==
    /\ ~cjobs[k].exists
    /\ \E jd \in ContainerJds :
          LET r == init_instance(JobWorld(TheContainer, k, 1), jd)
          IN  /\ SetContainer(Put(TheContainer, k, r.w))
              /\ jcall' = Ended("init_instance", k, r)
    /\ UNCHANGED <<pty, names_bound, job, process, now, started>>
    /\ UNCHANGED <<adaptor_registry, allow_betas, cpis, phase, load_outcome,
                   call, threads, filevars>>

\* a caller invokes service.container_run (jobs) ; subprocess.Popen ()
\* succeeds wherever subprocess is bound
ContainerRun ==
    \E joblist \in JobLists, pids \in [JobKeys -> 1..MaxPids] :
       /\ \A x \in 1..Len(joblist) : cjobs[joblist[x]].exists
       /\ \A k \in JobKeys :
             IF \E x \in 1..Len(joblist) : joblist[x] = k
             THEN pids[k] \notin PidsInUse(cprocs)
             ELSE pids[k] = 1
       /\ Len(joblist) = 2 => pids[joblist[1]] # pids[joblist[2]]
       /\ LET r == container_run(TheContainer, joblist, names_bound, TRUE, pids)
          IN  /\ SetContainer(r.c)
              /\ jcall' = [op |-> "container_run", pc |-> "done", arg |-> joblist,
                           exc |-> r.exc, ran |-> r.ran]
       /\ UNCHANGED <<pty, names_bound, job, process, now, started>>
       /\ UNCHANGED <<adaptor_registry, allow_betas, cpis, phase, load_outcome,
                      call, threads, filevars>>

\* a caller invokes service.container_wait (jobs, mode, timeout) and the
\* call returns or raises
ContainerWait ==
    \E joblist \in JobLists :
       /\ \A x \in 1..Len(joblist) : cjobs[joblist[x]].exists
       /\ LET r == container_wait(TheContainer, joblist)
          IN  /\ ~r.blocked
              /\ SetContainer(r.c)
              /\ jcall' = [op |-> "container_wait", pc |-> "done", arg |-> joblist,
                           exc |-> r.exc, ran |-> r.ran]
       /\ UNCHANGED <<pty, names_bound, job, process, now, started>>
       /\ UNCHANGED <<adaptor_registry, allow_betas, cpis, phase, load_outcome,
                      call, threads, filevars>>

\* a caller invokes service.get_job (jobid)
ContainerGetJob ==
    \E pid \in 1..MaxPids :
       LET jobid == Some(JobIdStr(Rm, pid))
           found == get_job(jobs, jobid)
       IN  /\ \/ /\ found = {}
                 /\ jcall' = [op |-> "get_job", pc |-> "done", arg |-> jobid,
                              exc |-> Exc("BadParameter", "doesn't know a Job with ID"),
                              ret |-> Absent]
              \/ \E k \in found :
                    jcall' = [op |-> "get_job", pc |-> "done", arg |-> jobid,
                              exc |-> Absent, ret |-> Some(k)]
           /\ UNCHANGED <<pty, cjobs, cprocs>>
           /\ UNCHANGED <<names_bound, job, process, jobs, now, started>>
           /\ UNCHANGED <<adaptor_registry, allow_betas, cpis, phase, load_outcome,
                          call, threads, filevars>>

\* a caller invokes get_state () of job k
ContainerGetState(k) ==
    /\ cjobs[k].exists
    /\ LET r == get_state(JobWorld(TheContainer, k, 1), 0)
       IN  /\ SetContainer(Put(TheContainer, k, r.w))
           /\ jcall' = Ended("get_state", k, r)
    /\ UNCHANGED <<pty, names_bound, job, process, now, started>>
    /\ UNCHANGED <<adaptor_registry, allow_betas, cpis, phase, load_outcome,
                   call, threads, filevars>>

\* the native process of job k exits
ContainerProcessExits(k) ==
    /\ cprocs[k].status = "running"
    /\ \E rc \in {0, 1} :
          cprocs' = [cprocs EXCEPT ![k].status = "zombie", ![k].rc = Some(rc)]
    /\ UNCHANGED <<pty, cjobs>>
    /\ UNCHANGED <<names_bound, job, process, jobs, now, started, jcall>>
    /\ UNCHANGED <<adaptor_registry, allow_betas, cpis, phase, load_outcome,
                   call, threads, filevars>>

(***************************************************************************)
(* The dummy filesystem adaptor: DummyDirectory and DummyFile on one local *)
(* path, its parent directory and the current directory.                   *)
(***************************************************************************)
\* the filesystems a call can find: `parent' is the directory of the path,
\* `target' the path itself, `cwd' the entry of the current working
\* directory that has the file name of the path; a path exists only in a
\* parent that is a directory
Filesystems ==
    {f \in [parent : {"none", "dir"}, target : {"none", "file", "dir"},
            cwd : {"none", "file"}] :
        f.target # "none" => f.parent = "dir"}

\* the urls of a call, by what _init_check tests, and its flags
DummyUrls == {"local", "remote", "port"}
DummyFlags == [create : BOOLEAN, parents : BOOLEAN]

\* how _init_check ends: the filesystem it leaves and the exception it raises
Checked(f, exc) == [fs |-> f, exc |-> exc]

\* DummyDirectory._init_check
dir_init_check(f, url, flags) ==
    IF url # "local" THEN Checked(f, Exc("BadParameter", "Cannot handle url"))
    ELSE IF f.target = "none"
    THEN IF flags.create
         THEN IF flags.parents
              THEN Checked([f EXCEPT !.parent = "dir", !.target = "dir"], Absent)
              ELSE IF f.parent = "none"
              THEN Checked(f, Exc("NoSuccess", "Could not mkdir"))
              ELSE Checked([f EXCEPT !.target = "dir"], Absent)
         ELSE Checked(f, Exc("BadParameter", "directory does not exist"))
    ELSE IF f.target # "dir"
    THEN Checked(f, Exc("BadParameter", "is not a directory"))
    ELSE Checked(f, Absent)

\* DummyFile._init_check ; the path does not end in "/".  os.makedirs is
\* called on the path itself, and os.path.exists (filename) looks the file
\* name up in the current directory.
file_init_check(f, url, flags) ==
    IF url # "local" THEN Checked(f, Exc("BadParameter", "Cannot handle url"))
    ELSE IF f.target # "none"
    THEN IF f.target = "file" THEN Checked(f, Absent)
         ELSE Checked(f, Exc("BadParameter", "is not a file"))
    ELSE IF f.parent = "none" /\ ~flags.parents
    THEN Checked(f, Exc("BadParameter", "parent dir does not exist"))
    ELSE LET f1 == IF f.parent = "none"
                   THEN [f EXCEPT !.parent = "dir", !.target = "dir"]
                   ELSE f
         IN  IF f1.cwd = "none" /\ ~flags.create
             THEN Checked(f1, Exc("BadParameter", "file does not exist"))
             ELSE IF f1.cwd = "none" /\ f1.target = "dir"
             THEN Checked(f1, Exc("NoSuccess", "Could not touch"))
             ELSE LET f2 == IF f1.cwd = "none" THEN [f1 EXCEPT !.target = "file"]
                            ELSE f1
                  IN  IF f2.target = "file" THEN Checked(f2, Absent)
                      ELSE Checked(f2, Exc("BadParameter", "is not a file"))

\* saga.task.Task () : a task in state NEW, without a result
NewTask == [state |-> New, result |-> Absent]

\* the asynchronous methods of the adaptor
AsyncOps == {"DummyDirectory.init_instance_async", "DummyFile.init_instance_async",
             "DummyFile.get_url_async", "DummyFile.get_size_self_async"}

\* no call of the adaptor made yet, no DummyFile constructed
NoDummy == [op |-> "none", pc |-> "done", file |-> FALSE]

\* a caller invokes init_instance of DummyDirectory or DummyFile
DummyInitInstance ==
    /\ dummy.pc = "done"
    /\ \E cls \in {"DummyDirectory", "DummyFile"}, url \in DummyUrls,
          flags \in DummyFlags :
          LET r == IF cls = "DummyDirectory" THEN dir_init_check(fs, url, flags)
                   ELSE file_init_check(fs, url, flags)
          IN  /\ fs' = r.fs
              /\ dummy' = [op |-> cls \o ".init_instance", pc |-> "done",
                           file |-> dummy.file \/ (cls = "DummyFile" /\ r.exc = Absent),
                           url |-> url, flags |-> flags, exc |-> r.exc,
                           task |-> Absent]
    /\ UNCHANGED <<pty, cjobs, cprocs>>
    /\ UNCHANGED <<names_bound, job, process, jobs, now, started, jcall>>
    /\ UNCHANGED <<adaptor_registry, allow_betas, cpis, phase, load_outcome,
                   call, threads>>

\* a caller invokes one of the asynchronous methods, which runs up to its
\* saga.task.Task (...) ; get_url_async runs to its end: it assigns to the
\* attributes t._set_state and t._set_result, which sets neither the state
\* nor the result of the task, or fails on the name saga.task.Done
DummyAsyncEnter ==
    /\ dummy.pc = "done"
    /\ \E op \in AsyncOps, url \in DummyUrls, flags \in DummyFlags,
          has_Done \in BOOLEAN :
          LET ctor == op \in {"DummyDirectory.init_instance_async",
                              "DummyFile.init_instance_async"}
              r == IF op = "DummyDirectory.init_instance_async"
                   THEN dir_init_check(fs, url, flags)
                   ELSE IF op = "DummyFile.init_instance_async"
                   THEN file_init_check(fs, url, flags)
                   ELSE Checked(fs, Absent)
              c == [op |-> op, pc |-> "done", file |-> dummy.file,
                    url |-> IF ctor THEN url ELSE "local",
                    flags |-> IF ctor THEN flags ELSE [create |-> FALSE, parents |-> FALSE],
                    exc |-> r.exc, task |-> Absent]
          IN  /\ ~ctor => (dummy.file /\ url = "local" /\ ~flags.create /\ ~flags.parents)
              /\ (op = "DummyFile.get_url_async") \/ has_Done
              /\ fs' = r.fs
              /\ dummy' =
                   IF r.exc # Absent THEN c
                   ELSE IF op = "DummyFile.get_url_async"
                   THEN IF has_Done THEN [c EXCEPT !.task = Some(NewTask)]
                        ELSE [c EXCEPT !.exc = Exc("AttributeError", "Done")]
                   ELSE [c EXCEPT !.pc = "task", !.task = Some(NewTask),
                                  !.file = @ \/ (op = "DummyFile.init_instance_async")]
    /\ UNCHANGED <<pty, cjobs, cprocs>>
    /\ UNCHANGED <<names_bound, job, process, jobs, now, started, jcall>>
    /\ UNCHANGED <<adaptor_registry, allow_betas, cpis, phase, load_outcome,
                   call, threads>>

\* the next statement of the asynchronous method: t._set_result (...), then
\* t._set_state (saga.task.DONE) and return t
DummyAsyncStep ==
    /\ dummy.pc \in {"task", "result"}
    /\ dummy' =
         IF dummy.pc = "task"
         THEN [dummy EXCEPT !.pc = "result",
                            !.task = Some([dummy.task[1] EXCEPT !.result = Some("value")])]
         ELSE [dummy EXCEPT !.pc = "done",
                            !.task = Some([dummy.task[1] EXCEPT !.state = DONE])]
    /\ UNCHANGED fs
    /\ UNCHANGED <<pty, cjobs, cprocs>>
    /\ UNCHANGED <<names_bound, job, process, jobs, now, started, jcall>>
    /\ UNCHANGED <<adaptor_registry, allow_betas, cpis, phase, load_outcome,
                   call, threads>>

\* the variables of a program that does not use the dummy adaptor
NoFiles ==
    /\ fs = [parent |-> "none", target |-> "none", cwd |-> "none"]
    /\ dummy = NoDummy

\* the service variables of a program without an ssh job service
NoService ==
    /\ pty = NewPty(<<>>)
    /\ cjobs = [k \in JobKeys |-> NoJob]
    /\ cprocs = [k \in JobKeys |-> NoProcess]
    /\ NoFiles

\* the job and service variables of an engine without an ssh job service
NoJobService ==
    /\ NoService
    /\ names_bound = FALSE
    /\ job = NoJob
    /\ process = NoProcess
    /\ jobs = <<>>
    /\ now = 0
    /\ started = 0
    /\ jcall = NoJobCall


(***************************************************************************)
(* Spec: loading followed by any sequence of resolutions, over the         *)
(* registries of loadable adaptors.                                        *)
(***************************************************************************)
Init ==
    /\ adaptor_registry \in DispatchRegistries
    /\ allow_betas \in BOOLEAN
    /\ cpis = <<>>
    /\ phase = "new"
    /\ load_outcome = "none"
    /\ call = NoCall
    /\ threads = NoThreads
    /\ NoJobService

Next ==
    \/ EngineInit
    \/ FindAdaptors
    \/ GetAdaptor
    \/ Return

Spec == Init /\ [][Next]_vars

(***************************************************************************)
(* SpecLoad: loading over every registry list, with the failing modules,   *)
(* followed by find_adaptors lookups.                                      *)
(***************************************************************************)
InitLoad ==
    /\ adaptor_registry \in Registries
    /\ allow_betas \in BOOLEAN
    /\ cpis = <<>>
    /\ phase = "new"
    /\ load_outcome = "none"
    /\ call = NoCall
    /\ threads = NoThreads
    /\ NoJobService

NextLoad ==
    \/ EngineInit
    \/ FindAdaptors
    \/ Return

SpecLoad == InitLoad /\ [][NextLoad]_vars

(***************************************************************************)
(* SpecConc: two callers resolve adaptors on one loaded engine at the same *)
(* time.                                                                   *)
(***************************************************************************)
InitConc ==
    /\ adaptor_registry \in ConcRegistries
    /\ allow_betas \in BOOLEAN
    /\ cpis = <<>>
    /\ phase = "new"
    /\ load_outcome = "none"
    /\ call = NoCall
    /\ threads = NoThreads
    /\ NoJobService

NextConc ==
    \/ EngineInit
    \/ \E t \in Threads : ThreadFindAdaptors(t)
    \/ \E t \in Threads : ThreadGetAdaptor(t)
    \/ \E t \in Threads : ThreadStep(t)

SpecConc == InitConc /\ [][NextConc]_vars

(***************************************************************************)
(* SpecJob: one job of an ssh job service, from its creation on, under any *)
(* sequence of calls, while its native process runs and exits.             *)
(***************************************************************************)
InitJob ==
    /\ adaptor_registry = <<>>
    /\ allow_betas = FALSE
    /\ cpis = <<>>
    /\ phase = "new"
    /\ load_outcome = "none"
    /\ call = NoCall
    /\ threads = NoThreads
    /\ names_bound \in BOOLEAN
    /\ job = NoJob
    /\ process = NoProcess
    /\ jobs = <<>>
    /\ now = 0
    /\ started = 0
    /\ jcall = NoJobCall
    /\ NoService

NextJob ==
    \/ CreateJob
    \/ JobInitInstance
    \/ Run
    \/ GetState
    \/ Wait
    \/ WaitPoll
    \/ Cancel
    \/ ProcessExits
    \/ Tick

SpecJob == InitJob /\ [][NextJob]_vars

\* SpecJobLive: the same job; the loop of wait () keeps polling and time
\* keeps passing, while the native process need not ever exit
SpecJobLive == SpecJob /\ WF_vars(WaitPoll) /\ WF_vars(Tick)

(***************************************************************************)
(* Engine._load_adaptors called again on a loaded engine, with or without  *)
(* an injected registry.                                                   *)
(***************************************************************************)
\* the most Adaptor () objects made by the loads of one engine
MaxInstances == 4

\* the number of Adaptor () objects made so far, as far as the table shows:
\* the largest position of an adaptor instance in it
InstancesIn(table) ==
    LET ps == UNION {UNION {{table[t][x][k].adaptor_instance.pos :
                                k \in 1..Len(table[t][x])} :
                            x \in DOMAIN table[t]} : t \in DOMAIN table}
    IN  IF ps = {} THEN 0 ELSE CHOOSE p \in ps : \A q \in ps : q <= p

\* _load_adaptors (inject_registry) on an engine whose table is `table':
\* with an injected registry (Some) self._cpis is reset and the injected
\* list is loaded, without one (Absent) the list of saga.engine.registry is
\* loaded on top of the table.  The Adaptor () objects it makes are new ones.
load_adaptors(table, registry, inject, betas) ==
    LET made == InstancesIn(table)
        loaded == IF inject = Absent THEN registry ELSE inject[1]
        onto   == IF inject = Absent THEN table ELSE <<>>
    IN  LoadFrom(LoadState(onto, None), [k \in 1..made |-> ""] \o loaded,
                 made + 1, betas)

\* a caller invokes engine._load_adaptors (inject_registry) again
LoadAdaptorsAgain ==
    /\ phase = "ready"
    /\ call = [op |-> "none"]
    /\ \E inject \in {Absent} \cup
                     {Some(r) : r \in SeqsUpTo({"mod_a", "mod_b"}, MaxConcRegistry)} :
          /\ InstancesIn(cpis) + Len(IF inject = Absent THEN adaptor_registry
                                     ELSE inject[1]) <= MaxInstances
          /\ LET st == load_adaptors(cpis, adaptor_registry, inject, allow_betas)
             IN  /\ cpis' = st.cpis
                 /\ load_outcome' = IF st.raised = None THEN "returned" ELSE st.raised
                 /\ phase' = IF st.raised = None THEN "ready" ELSE "failed"
          /\ call' = [op |-> "load_adaptors", inject |-> inject]
    /\ UNCHANGED <<adaptor_registry, allow_betas, threads>>
    /\ UNCHANGED jobvars

(***************************************************************************)
(* SpecDummy: calls of the dummy filesystem adaptor, over the filesystems  *)
(* they can find.                                                          *)
(***************************************************************************)
InitDummy ==
    /\ adaptor_registry = <<>>
    /\ allow_betas = FALSE
    /\ cpis = <<>>
    /\ phase = "new"
    /\ load_outcome = "none"
    /\ call = [op |-> "none"]
    /\ threads = NoThreads
    /\ names_bound = FALSE
    /\ job = NoJob
    /\ process = NoProcess
    /\ jobs = <<>>
    /\ now = 0
    /\ started = 0
    /\ jcall = NoJobCall
    /\ pty = NewPty(<<>>)
    /\ cjobs = [k \in JobKeys |-> NoJob]
    /\ cprocs = [k \in JobKeys |-> NoProcess]
    /\ fs \in Filesystems
    /\ dummy = NoDummy

NextDummy ==
    \/ DummyInitInstance
    \/ DummyAsyncEnter
    \/ DummyAsyncStep

SpecDummy == InitDummy /\ [][NextDummy]_vars

(***************************************************************************)
(* SpecReload: an engine that is loaded and then loaded again any number   *)
(* of times, between lookups.                                              *)
(***************************************************************************)
NextReload ==
    \/ EngineInit
    \/ LoadAdaptorsAgain
    \/ FindAdaptors
    \/ Return

SpecReload == InitConc /\ [][NextReload]_vars

(***************************************************************************)
(* SpecSession: SSHJobService.init_instance drives the connection it       *)
(* opened, over every output the connection can print.                     *)
(***************************************************************************)
InitSession ==
    /\ adaptor_registry = <<>>
    /\ allow_betas = FALSE
    /\ cpis = <<>>
    /\ phase = "new"
    /\ load_outcome = "none"
    /\ call = NoCall
    /\ threads = NoThreads
    /\ names_bound = FALSE
    /\ job = NoJob
    /\ process = NoProcess
    /\ jobs = <<>>
    /\ now = 0
    /\ started = 0
    /\ jcall = NoJobCall
    /\ pty \in {NewPty(out) : out \in SeqsUpTo(PtyEvents, MaxOutput)}
    /\ cjobs = [k \in JobKeys |-> NoJob]
    /\ cprocs = [k \in JobKeys |-> NoProcess]
    /\ NoFiles

NextSession ==
    \/ ServiceInitInstance
    \/ Handshake
    \/ RunJob
    \/ ConnectionDies

SpecSession == InitSession /\ [][NextSession]_vars

(***************************************************************************)
(* SpecContainer: the jobs of one ssh job service, once its init_instance  *)
(* has returned, under any sequence of calls while their processes run and *)
(* exit.                                                                   *)
(***************************************************************************)
\* the session init_instance leaves when the connection printed the banner
\* and the prompt and then dropped
ReturnedPty ==
    [pc |-> "returned", alive |-> FALSE, out |-> <<>>, n |-> Some(0),
     cmd |-> Absent, written |-> <<"export PS1", "wget", "/bin/sh">>, i |-> 0]

InitContainer ==
    /\ adaptor_registry = <<>>
    /\ allow_betas = FALSE
    /\ cpis = <<>>
    /\ phase = "new"
    /\ load_outcome = "none"
    /\ call = NoCall
    /\ threads = NoThreads
    /\ names_bound \in BOOLEAN
    /\ job = NoJob
    /\ process = NoProcess
    /\ jobs = <<>>
    /\ now = 0
    /\ started = 0
    /\ jcall = NoJobCall
    /\ pty = ReturnedPty
    /\ cjobs = [k \in JobKeys |-> NoJob]
    /\ cprocs = [k \in JobKeys |-> NoProcess]
    /\ NoFiles

NextContainer ==
    \/ \E k \in JobKeys : ContainerInitInstance(k)
    \/ ContainerRun
    \/ ContainerWait
    \/ ContainerGetJob
    \/ \E k \in JobKeys : ContainerGetState(k)
    \/ \E k \in JobKeys : ContainerProcessExits(k)

SpecContainer == InitContainer /\ [][NextContainer]_vars


(***************************************************************************)
(* Properties.  The definitions below state what is expected of the engine *)
(* from the registry list and the arguments alone; they use none of the    *)
(* operators that model get_adaptor or _load_adaptors.                     *)
(***************************************************************************)

IsLowerCase(s) == \A i \in 1..Len(s) : \A j \in 1..26 : s[i] # UpperCase[j]

\* s and t differ at most in the case of their letters
SameIgnoringCase(s, t) ==
    /\ Len(s) = Len(t)
    /\ \A i \in 1..Len(s) :
          \/ s[i] = t[i]
          \/ \E j \in 1..26 : {s[i], t[i]} = {UpperCase[j], LowerCase[j]}

AllSchemas == {S_ssh, S_SSH, S_Ssh, S_http, S_HTTP, S_ftp, S_gsissh, S_dummy}

\* the key a scheme is stored under
KeysFor(table, ctype, schema) ==
    IF ctype \notin DOMAIN table THEN {}
    ELSE {s \in DOMAIN table[ctype] : IsLowerCase(s) /\ SameIgnoringCase(s, schema)}

HasEntry(table, ctype, schema) == KeysFor(table, ctype, schema) # {}

EntryList(table, ctype, schema) ==
    table[ctype][CHOOSE s \in KeysFor(table, ctype, schema) : TRUE]

IsGet  == call.op = "get_adaptor"
IsFind == call.op = "find_adaptors"

\* the candidates of the recorded call
CallHasEntry == HasEntry(cpis, call.ctype, call.schema)
CallInfos    == EntryList(cpis, call.ctype, call.schema)

\* what the k-th of the candidates does in the recorded call, and the name
\* of its adaptor
BehOf(infos, k)  == call.beh[infos[k].cpi_class]
NameOf(infos, k) == Modules[infos[k].adaptor_instance.module].info.name

Min(S) == CHOOSE x \in S : \A y \in S : x <= y

Upto(n) == [j \in 1..n |-> j]

\* the candidates up to the f-th whose class was instantiated
InstantiatedUpto(infos, f) ==
    SelectSeq(Upto(f), LAMBDA j : BehOf(infos, j) # "ctor_raise")

SyncCall   == IsGet /\ call.ttype = None /\ call.requested_name = None
AsyncCall  == IsGet /\ call.ttype # None /\ call.requested_name = None
RebindCall == IsGet /\ call.requested_name # None

----------------------------------------------------------------------------
\* C1: synchronous dispatch binds the first candidate in registration order
\* that accepts (its class instantiates and init_instance does not raise):
\* every earlier candidate was tried and skipped, no later candidate is
\* constructed, and get_adaptor does not raise when some candidate accepts.
C1_SyncFirstFit ==
    (SyncCall /\ CallHasEntry) =>
        LET infos == CallInfos
            accepting == {k \in 1..Len(infos) : BehOf(infos, k) = "accept"}
        IN  accepting # {} =>
              LET f == Min(accepting)
              IN  /\ call.ret.kind = "cpi_instance"
                  /\ call.ret.exc = None
                  /\ call.ret.idx = f
                  /\ call.ret.trace.constructed = Upto(f)
                  /\ call.ret.trace.inited = InstantiatedUpto(infos, f)
                  /\ call.ret.trace.asynced = <<>>
                  /\ Len(call.ret.trace.msg) = f - 1

\* the first candidate rejected in init_instance, the second bound, a third
\* never constructed
C1_Witness ==
    /\ SyncCall /\ CallHasEntry
    /\ LET infos == CallInfos
       IN  /\ Len(infos) >= 3
           /\ BehOf(infos, 1) = "reject"
           /\ BehOf(infos, 2) = "accept"
    /\ call.ret.idx = 2

----------------------------------------------------------------------------
\* C2: get_adaptor for a (type, scheme) without registry entry (unknown
\* type, or unknown scheme under a known type, after lower-casing) raises
\* NotImplemented, instantiates no implementation class and leaves the
\* registry unchanged.
C2_Step ==
    (call = NoCall /\ call' # NoCall /\ call'.op = "get_adaptor"
        /\ ~HasEntry(cpis, call'.ctype, call'.schema)) =>
            /\ call'.ret.kind = "raise"
            /\ call'.ret.exc = "NotImplemented"
            /\ call'.ret.trace = NoTrace
            /\ cpis' = cpis

C2_NoEntryUnsupported == [][C2_Step]_vars

\* a known type with an unknown scheme
C2_Witness ==
    /\ IsGet
    /\ call.ctype \in DOMAIN cpis
    /\ ~CallHasEntry
    /\ call.ret.kind = "raise"

----------------------------------------------------------------------------
\* C3: when every candidate rejects the request, get_adaptor raises
\* NotImplemented and the error detail holds one rejection reason per
\* candidate, in the order the candidates were tried.
Rejects(infos, k) ==
    \/ BehOf(infos, k) = "ctor_raise"
    \/ SyncCall  /\ BehOf(infos, k) \in {"reject", "reject_late"}
    \/ AsyncCall /\ BehOf(infos, k) = "reject"

ExpectedReason(infos, k) ==
    [adaptor_name |-> NameOf(infos, k),
     cpi_class    |-> infos[k].cpi_class,
     error        |-> IF BehOf(infos, k) = "ctor_raise" THEN "cpi_class"
                      ELSE IF call.ttype = None THEN "init_instance"
                      ELSE "init_instance_async"]

C3_AllRejectAggregates ==
    (IsGet /\ CallHasEntry) =>
        LET infos == CallInfos
        IN  (\A k \in 1..Len(infos) : Rejects(infos, k)) =>
              /\ call.ret.kind = "raise"
              /\ call.ret.exc = "NotImplemented"
              /\ call.ret.text = "No suitable adaptor found"
              /\ call.ret.trace.msg =
                     [k \in 1..Len(infos) |-> ExpectedReason(infos, k)]

C3_Witness ==
    /\ IsGet /\ CallHasEntry
    /\ LET infos == CallInfos
       IN  /\ Len(infos) >= 3
           /\ \A k \in 1..Len(infos) : Rejects(infos, k)
           /\ BehOf(infos, 1) = "ctor_raise"
           /\ BehOf(infos, 2) = "reject"
           /\ Len(call.ret.trace.msg) = Len(infos)

----------------------------------------------------------------------------
\* C4 (as claimed): in the re-bind path the result is an instance of the
\* first candidate whose adaptor name equals requested_name, no
\* init_instance / init_instance_async is invoked, and the call raises
\* NotImplemented if no candidate carries that name.
C4_RebindFirstNamed ==
    (RebindCall /\ CallHasEntry) =>
        LET infos == CallInfos
            named == {k \in 1..Len(infos) : NameOf(infos, k) = call.requested_name}
        IN  /\ call.ret.trace.inited = <<>>
            /\ call.ret.trace.asynced = <<>>
            /\ named = {} =>
                  call.ret.kind = "raise" /\ call.ret.exc = "NotImplemented"
            /\ call.ret.kind # "raise" =>
                  call.ret.kind = "cpi_instance" /\ call.ret.idx = Min(named)

\* C4 (amended): in the re-bind path the result is an instance of the first
\* candidate whose adaptor name equals requested_name and whose class
\* instantiates without raising; no init_instance / init_instance_async is
\* invoked on any candidate; candidates with another name are skipped; the
\* call raises NotImplemented if there is no such candidate.
C4_RebindFirstNamedInstantiable ==
    (RebindCall /\ CallHasEntry) =>
        LET infos  == CallInfos
            usable == {k \in 1..Len(infos) :
                          /\ NameOf(infos, k) = call.requested_name
                          /\ BehOf(infos, k) # "ctor_raise"}
        IN  /\ call.ret.trace.inited = <<>>
            /\ call.ret.trace.asynced = <<>>
            /\ IF usable = {}
               THEN /\ call.ret.kind = "raise"
                    /\ call.ret.exc = "NotImplemented"
                    /\ call.ret.trace.constructed = Upto(Len(infos))
               ELSE /\ call.ret.kind = "cpi_instance"
                    /\ call.ret.idx = Min(usable)
                    /\ call.ret.trace.constructed = Upto(Min(usable))

\* a candidate with another name is skipped and a later one with the
\* requested name is returned
C4_Witness ==
    /\ RebindCall /\ CallHasEntry
    /\ LET infos == CallInfos
       IN  /\ NameOf(infos, 1) # call.requested_name
           /\ BehOf(infos, 1) = "accept"
    /\ call.ret.kind = "cpi_instance"
    /\ call.ret.idx > 1

----------------------------------------------------------------------------
\* the candidates whose class instantiates and whose init_instance_async
\* returns a Task
NotRaisingAsync(infos) ==
    {k \in 1..Len(infos) : BehOf(infos, k) \in {"reject_late", "accept"}}

\* C5 (as claimed): asynchronous dispatch returns the Task of the first
\* candidate whose asynchronous constructor does not raise, and that Task
\* is one that will accept: a candidate whose Task ends FAILED is not bound
\* while a later candidate would have accepted.
C5_AsyncTaskAccepts ==
    (AsyncCall /\ CallHasEntry) =>
        LET infos == CallInfos
            nr    == NotRaisingAsync(infos)
        IN  nr # {} =>
              /\ call.ret.kind = "task"
              /\ call.ret.idx = Min(nr)
              /\ ~ /\ call.ret.task = "FAILED"
                   /\ \E j \in (Min(nr) + 1)..Len(infos) : BehOf(infos, j) = "accept"

\* C5 (amended): asynchronous dispatch returns the Task of the first
\* candidate whose class instantiates and whose init_instance_async does
\* not raise, skipping the candidates that raise; no later candidate is
\* constructed, and the Task is returned whether it later ends DONE or
\* FAILED.
C5_AsyncFirstTask ==
    (AsyncCall /\ CallHasEntry) =>
        LET infos == CallInfos
            nr    == NotRaisingAsync(infos)
        IN  nr # {} =>
              LET f == Min(nr)
              IN  /\ call.ret.kind = "task"
                  /\ call.ret.idx = f
                  /\ call.ret.task =
                       (IF BehOf(infos, f) = "accept" THEN "DONE" ELSE "FAILED")
                  /\ call.ret.trace.constructed = Upto(f)
                  /\ call.ret.trace.asynced = InstantiatedUpto(infos, f)
                  /\ call.ret.trace.inited = <<>>
                  /\ Len(call.ret.trace.msg) = f - 1

\* the first asynchronous constructor raises, the second returns a Task
C5_Witness ==
    /\ AsyncCall /\ CallHasEntry
    /\ LET infos == CallInfos
       IN  /\ Len(infos) >= 3
           /\ BehOf(infos, 1) = "reject"
    /\ call.ret.kind = "task"
    /\ call.ret.idx = 2
    /\ call.ret.task = "DONE"

----------------------------------------------------------------------------
\* What the registry list promises, read off the module descriptions.

RegMod(i) == Modules[adaptor_registry[i]]

Range(f) == {f[x] : x \in DOMAIN f}

\* the version string marks the adaptor experimental
Experimental(version) ==
    \E i \in 1..Len(version), j \in 1..Len(version) :
        LET w == SubSeq(version, i, j)
        IN  SameIgnoringCase(w, S_alpha) \/ SameIgnoringCase(w, S_beta)

\* the module imports, Adaptor() and register() succeed and the meta data
\* carry a name, a version and a cpi list
ValidMeta(m) ==
    /\ m.import /\ m.adaptor = "ok" /\ m.register = "info"
    /\ {"name", "version", "cpis"} \subseteq DOMAIN m.info

ReleasedOrAllowed(m) == allow_betas \/ ~Experimental(m.info.version)

CpiComplete(c) == {"type", "class", "schemas"} \subseteq DOMAIN c

\* an adaptor with nothing wrong: it is valid, passes both filters, and
\* every cpi it lists is complete and names a class of the module
Loadable(m) ==
    /\ ValidMeta(m)
    /\ ReleasedOrAllowed(m)
    /\ m.enabled = "True"
    /\ \A c \in Range(m.info.cpis) : CpiComplete(c) /\ c.class \in m.classes

\* loading this module lets an exception escape from _load_adaptors
Escapes(m) ==
    /\ ValidMeta(m)
    /\ ReleasedOrAllowed(m)
    /\ \/ m.enabled = "raise"
       \/ /\ m.enabled = "True"
          /\ \E c \in Range(m.info.cpis) :
                CpiComplete(c) /\ c.schemas # <<>> /\ c.class \notin m.classes

\* the schemes an adaptor declares for one of its cpis: the cpi's own list,
\* or else the adaptor's
DeclaredSchemas(info, c) ==
    IF "schemas" \in DOMAIN c THEN c.schemas
    ELSE IF "schemas" \in DOMAIN info THEN info.schemas
    ELSE <<>>

\* the registry pairs the class with the adaptor instance of the i-th module
\* under (type, lower-cased scheme)
Registered(i, type, schema, class) ==
    /\ HasEntry(cpis, type, schema)
    /\ [cpi_class        |-> [module |-> adaptor_registry[i], class |-> class],
        adaptor_instance |-> [module |-> adaptor_registry[i], pos |-> i]]
          \in Range(EntryList(cpis, type, schema))

AllRegistered(i) ==
    LET info == RegMod(i).info
    IN  \A c \in Range(info.cpis) :
           ("type" \in DOMAIN c /\ "class" \in DOMAIN c) =>
               \A schema \in Range(DeclaredSchemas(info, c)) :
                   Registered(i, c.type, schema, c.class)

AllInfos ==
    UNION {UNION {Range(cpis[t][s]) : s \in DOMAIN cpis[t]} : t \in DOMAIN cpis}

NoEntriesOf(i) == \A info \in AllInfos : info.adaptor_instance.pos # i

Positions == 1..Len(adaptor_registry)

----------------------------------------------------------------------------
\* C6: a failure at any step of loading one adaptor (import, Adaptor(),
\* register(), meta data checks, reading 'enabled', resolving a class name)
\* is recovered locally: _load_adaptors returns normally and every other
\* adaptor of the list is still registered.
C6_LoadFailuresIsolated ==
    phase # "new" =>
        /\ load_outcome = "returned"
        /\ \A i \in Positions : Loadable(RegMod(i)) => AllRegistered(i)

----------------------------------------------------------------------------
\* C7: if Adaptor() or register() raises for a module, that adaptor
\* contributes no registry entry, and every adaptor listed after it is
\* still loaded and found by find_adaptors.
RaisesInRegistration(m) ==
    m.import /\ (m.adaptor = "raise" \/ m.register = "raise")

LoaderReaches(i) == \A k \in 1..(i - 1) : ~Escapes(RegMod(k))

FoundByName(j) ==
    LET info == RegMod(j).info
    IN  \A c \in Range(info.cpis) : \A schema \in Range(c.schemas) :
           info.name \in Range(find_adaptors(cpis, c.type, schema))

C7_RegistrationFailureIsolated ==
    phase # "new" =>
        \A i \in Positions :
            (RaisesInRegistration(RegMod(i)) /\ LoaderReaches(i)) =>
                /\ NoEntriesOf(i)
                /\ \A j \in (i + 1)..Len(adaptor_registry) :
                      Loadable(RegMod(j)) => AllRegistered(j) /\ FoundByName(j)

----------------------------------------------------------------------------
\* C8: after loading, for every adaptor that passed the meta data checks
\* and both filters, and every type and scheme it declares, the registry
\* list of (type, lower-cased scheme) pairs that class with that adaptor
\* instance; so the SSH job adaptor's Service and Job classes are
\* registered for 'ssh' and 'gsissh'.
C8_DeclaredRegistered ==
    phase = "ready" =>
        \A i \in Positions :
            LET m == RegMod(i)
            IN  (ValidMeta(m) /\ ReleasedOrAllowed(m) /\ m.enabled = "True")
                    => AllRegistered(i)

----------------------------------------------------------------------------
\* C9: every stored scheme key is lower-case, and for scheme strings that
\* differ only in letter case get_adaptor and find_adaptors consider the
\* same candidate list and return the same outcome.
CaseVariants(schema) == {s \in AllSchemas : SameIgnoringCase(s, schema)}

C9_SchemeCaseInsensitive ==
    /\ \A t \in DOMAIN cpis : \A s \in DOMAIN cpis[t] : IsLowerCase(s)
    /\ IsGet =>
         \A s2 \in CaseVariants(call.schema) :
            /\ Candidates(cpis, call.ctype, s2)
                  = Candidates(cpis, call.ctype, call.schema)
            /\ get_adaptor(cpis, call.ctype, s2, call.ttype,
                           call.requested_name, call.beh) = call.ret
    /\ IsFind =>
         \A s2 \in CaseVariants(call.schema) :
            /\ Candidates(cpis, call.ctype, s2)
                  = Candidates(cpis, call.ctype, call.schema)
            /\ find_adaptors(cpis, call.ctype, s2) = call.ret

\* a scheme in mixed case is resolved through the list registered from a
\* declaration in upper case
C9_Witness ==
    /\ IsGet
    /\ call.schema = S_Ssh
    /\ adaptor_registry = <<"mod_a">>
    /\ call.ret.kind = "cpi_instance"

----------------------------------------------------------------------------
\* C10: an adaptor has entries in the registry only if its version does not
\* mark it experimental ('alpha' or 'beta', in any case) or
\* load_beta_adaptors is on, and its 'enabled' option is not False.
C10_OnlyReleasedAndEnabled ==
    \A info \in AllInfos :
        LET m == Modules[info.adaptor_instance.module]
        IN  /\ allow_betas \/ ~Experimental(m.info.version)
            /\ m.enabled # "False"

\* betas off: an experimental and a disabled adaptor are passed over and
\* the adaptor after them is registered
C10_Witness ==
    /\ phase = "ready"
    /\ ~allow_betas
    /\ adaptor_registry = <<"mod_beta", "mod_off", "mod_a">>
    /\ AllInfos # {}

(***************************************************************************)
(* Concurrent resolution                                                   *)
(***************************************************************************)

\* the registry as _load_adaptors left it
LoadedRegistry == LoadAdaptors(adaptor_registry, allow_betas).cpis

\* what the call of a thread returns when it is the only call
AloneOutcome(th) ==
    IF th.op = "find_adaptors"
    THEN find_adaptors(LoadedRegistry, th.ctype, th.schema)
    ELSE get_adaptor(LoadedRegistry, th.ctype, th.schema, th.ttype,
                     th.requested_name, th.beh)

\* C11: once loading has finished, no step of get_adaptor or find_adaptors
\* changes the registry table, and under every interleaving of two callers
\* each finished call has the outcome the same call has when it runs alone
\* on the loaded registry.
C11_ConcurrentResolutionsIndependent ==
    phase = "ready" =>
        /\ cpis = LoadedRegistry
        /\ \A t \in Threads :
              threads[t].pc = "done" => threads[t].ret = AloneOutcome(threads[t])

\* two get_adaptor calls ran their loops at the same time; one bound its
\* second or a later candidate, the other found every candidate rejecting
C11_Witness ==
    /\ threads["t1"].pc = "done" /\ threads["t2"].pc = "done"
    /\ threads["t1"].op = "get_adaptor" /\ threads["t2"].op = "get_adaptor"
    /\ threads["t1"].overlapped /\ threads["t2"].overlapped
    /\ threads["t1"].ret.kind = "cpi_instance" /\ threads["t1"].ret.idx >= 2
    /\ threads["t2"].ret.kind = "raise" /\ Len(threads["t2"].ret.trace.msg) >= 2

(***************************************************************************)
(* The ssh job                                                             *)
(***************************************************************************)

Terminal == {DONE, FAILED, CANCELED}

\* C12: once the state of the job is DONE, FAILED or CANCELED no step of
\* run, get_state, wait or cancel changes it.
C12_Step == (job.exists /\ job.state \in Terminal) => job'.state = job.state

C13_CreateJobChecksAttributes ==
    (jcall.op = "create_job" /\ jcall.pc = "done") =>
        IF ListAttributes(jcall.arg[1]) \subseteq ADAPTOR_CAPABILITIES["jdes_attributes"]
        THEN /\ jcall.exc = Absent
             /\ job.exists
             /\ job.state = New
             /\ job.process = Absent
             /\ "job" \in DOMAIN jobs
             /\ jobs["job"] = Absent
        ELSE /\ jcall.exc # Absent
             /\ jcall.exc[1].type = "BadParameter"
             /\ ~job.exists
             /\ jobs = <<>>

\* the job description asks for what run () must refuse
Unresolvable(jd) ==
    \/ jd.executable \notin OnPath
    \/ jd.spmd_variation = "MPI" /\ "mpirun" \notin OnPath

\* C14: run () on a NEW job whose executable is not on the search path, or
\* which asks for MPI without an mpirun on the path, raises BadParameter
\* and leaves the job (state NEW, id, no process) and the service's map as
\* they were.
C14_Step ==
    (Run /\ job.state = New /\ Unresolvable(job.jd)) =>
        /\ jcall'.exc # Absent
        /\ jcall'.exc[1].type = "BadParameter"
        /\ job' = job
        /\ process' = process
        /\ jobs' = jobs

C14_RunRejectsUnresolvable == [][C14_Step]_vars

\* C15: run () on a NEW job whose description passes the checks and whose
\* process starts leaves the job RUNNING, with the start time, the handle
\* of the running process and an id made of the process id and the
\* service's URL, which is the id the service's map holds for the job.
C15_Step ==
    ( /\ Run
      /\ job.state = New
      /\ ReachesStart(job.jd, names_bound, jcall'.arg.files_ok)
      /\ names_bound /\ jcall'.arg.popen_ok ) =>
        /\ jcall'.exc = Absent
        /\ job'.state = RUNNING
        /\ job'.started = Some(now)
        /\ process'.status = "running"
        /\ job'.process = Some(process'.pid)
        /\ job'.id = Some(JobIdStr(Rm, process'.pid))
        /\ "job" \in DOMAIN jobs'
        /\ jobs'["job"] = job'.id

C16_Step ==
    ( /\ Run
      /\ ReachesStart(job.jd, names_bound, jcall'.arg.files_ok)
      /\ ~(names_bound /\ jcall'.arg.popen_ok) ) =>
        /\ jcall'.exc # Absent
        /\ jcall'.exc[1].type = "NoSuccess"
        /\ job'.state = FAILED
        /\ job'.exception = jcall'.exc
        /\ re_raise(job') = jcall'.exc
        /\ jcall'.states = <<FAILED>>
        /\ process' = process

C16_StartFailureCaptured == [][C16_Step]_vars

\* the start failed on a NEW job although the names are bound
C16_Witness ==
    /\ jcall.op = "run" /\ jcall.exc # Absent
    /\ jcall.exc[1].type = "NoSuccess"
    /\ names_bound
    /\ job.state = FAILED
    /\ job.process = Absent

Exited(p) == p.status \in {"zombie", "reaped"}

\* C17: get_state () on a RUNNING job polls the process: RUNNING while it
\* has not exited, DONE once it exited with 0, FAILED with the non-zero
\* exit error and the exit code once it exited with another code, the
\* finish time set in both cases; in any other state it returns the state
\* and changes nothing.
C17_Step ==
    GetState =>
        /\ jcall'.ret = Some(job'.state)
        /\ jcall'.exc = Absent
        /\ (job.state = RUNNING /\ ~Exited(process)) =>
              /\ job'.state = RUNNING
              /\ job'.finished = job.finished
              /\ job'.exception = job.exception
        /\ (job.state = RUNNING /\ Exited(process) /\ process.rc = Some(0)) =>
              /\ job'.state = DONE
              /\ job'.exit_code = Some(0)
              /\ job'.finished = Some(now)
        /\ (job.state = RUNNING /\ Exited(process) /\ process.rc # Some(0)) =>
              /\ job'.state = FAILED
              /\ job'.exit_code = process.rc
              /\ job'.exception = Exc("NoSuccess", "non-zero exit code")
              /\ job'.finished = Some(now)
        /\ job.state # RUNNING =>
              /\ job' = job
              /\ process' = process

C17_GetStatePolls == [][C17_Step]_vars

\* get_state () has found the process exited with code 1, some time after
\* the start
C17_Witness ==
    /\ jcall.op = "get_state"
    /\ jcall.ret = Some(FAILED)
    /\ job.exit_code = Some(1)
    /\ job.finished = Some(now)
    /\ job.started # job.finished

C19_Step ==
    (Wait /\ started = 0) =>
        /\ jcall'.pc = "done"
        /\ jcall'.exc # Absent
        /\ jcall'.exc[1].type = "IncorrectState"
        /\ job' = job
        /\ process' = process
        /\ jobs' = jobs

C19_WaitNeedsProcess == [][C19_Step]_vars

\* wait (0) was refused on a job whose run failed before a process existed
C19_Witness ==
    /\ jcall.op = "wait" /\ jcall.pc = "done"
    /\ jcall.arg = 0
    /\ jcall.exc # Absent
    /\ job.state = FAILED
    /\ started = 0

\* C20: whatever the timeout, and whether the process exits during the
\* wait or not, no step of wait (timeout) changes an attribute of the job
\* other than the cached exit code.
C20_Step ==
    (Wait \/ WaitPoll) => [job' EXCEPT !.exit_code = job.exit_code] = job

C20_WaitOnlyExitCode == [][C20_Step]_vars

\* a wait (1) has returned the exit code of the process; the job still
\* shows RUNNING and has no finish time
C20_Witness ==
    /\ jcall.op = "wait" /\ jcall.pc = "done"
    /\ jcall.arg = 1
    /\ jcall.ret = Some(1)
    /\ job.exit_code = Some(1)
    /\ job.state = RUNNING
    /\ job.finished = Absent

C22_Step ==
    /\ (Cancel /\ job.state = RUNNING) =>
          /\ jcall'.exc = Absent
          /\ job'.state = CANCELED
          /\ process'.signals = process.signals + 1
          /\ Exited(process')
    /\ (GetState /\ job.state = CANCELED) =>
          /\ jcall'.ret = Some(CANCELED)
          /\ job' = job

C23_Step ==
    (Cancel /\ job.state \in {New} \cup Terminal) =>
        /\ jcall'.exc # Absent
        /\ jcall'.exc[1].type = "IncorrectState"
        /\ process' = process
        /\ job' = job

C23_CancelNeedsLiveProcess == [][C23_Step]_vars

\* C24: container_run and container_wait isolate per-job failures: when
\* the call has ended, run () (resp. wait ()) has been invoked on every job
\* of the list it was given, also after the run () or wait () of an
\* earlier job failed.
C24_BulkIsolatesFailures ==
    (jcall.op \in {"container_run", "container_wait"} /\ jcall.pc = "done")
        => jcall.ran = jcall.arg

\* the jobs of the service that hold this id
Holders(jobid) == {k \in JobKeys : cjobs[k].exists /\ cjobs[k].id = jobid}

MapFollowsJobs ==
    \A k \in JobKeys : cjobs[k].exists =>
        /\ k \in DOMAIN jobs
        /\ jobs[k] = cjobs[k].id
        /\ (jobs[k] = Absent) <=> (cjobs[k].started = Absent)

\* list () returns the ids of the started jobs
ListIsStartedIds ==
    list(jobs) = {cjobs[k].id : k \in {x \in JobKeys : cjobs[x].exists}} \ {Absent}

\* no two jobs of the service have the same id
IdsUnique ==
    \A k1, k2 \in JobKeys :
        (/\ k1 # k2 /\ cjobs[k1].exists /\ cjobs[k2].exists
         /\ cjobs[k1].id # Absent) => cjobs[k1].id # cjobs[k2].id

C30_Step ==
    ~pty'.alive =>
        \A k \in JobKeys : cjobs'[k].exists =>
            /\ cjobs'[k].state # RUNNING
            /\ ~(cjobs[k].exists /\ cjobs[k].state = RUNNING /\ cjobs'[k].state = DONE)

C27_Step ==
    (/\ Len(pty'.written) = Len(pty.written) + 1
     /\ pty'.written[Len(pty'.written)] = "RUN") => pty'.cmd = Some(0)

C27_OneOutstandingRun == [][C27_Step]_vars

\* C28: in the handshake a password challenge is answered with the
\* credentials and a host-key request with "yes", each followed by a new
\* match of the same three patterns; after the banner the driver sets the
\* sentinel prompt, and it goes on to install the wrapper and issue
\* commands only when the sentinel prompt has been observed.
C28_Step ==
    Handshake =>
        /\ pty.n = Some(0) =>
              /\ pty'.written = Append(pty.written, "secret")
              /\ pty'.pc = "handshake"
              /\ pty'.n = findline(pty, HandshakePatterns).n
        /\ pty.n = Some(1) =>
              /\ pty'.written = Append(pty.written, "yes")
              /\ pty'.pc = "handshake"
              /\ pty'.n = findline(pty, HandshakePatterns).n
        /\ pty.n = Some(2) =>
              /\ Len(pty'.written) > Len(pty.written)
              /\ pty'.written[Len(pty.written) + 1] = "export PS1"
        /\ pty'.pc = "run_job" => pty'.n = Some(0)

C28_HandshakeSteps == [][C28_Step]_vars

\* C29: whenever a match of the handshake finds none of its patterns
\* within its wait (the three patterns, or the sentinel prompt),
\* init_instance has failed with NoSuccess: it is neither still in its loop
\* nor on its way to issue commands.
C29_NoMatchIsNoSuccess ==
    (pty.pc # "new" /\ pty.n = Absent) => pty.pc = "failed: NoSuccess"

\* C33: _run_job issues exactly one RUN request and returns while the
\* connection is alive: once a RUN line has been written after a CMD ready
\* marker on a live connection whose handshake saw the sentinel prompt, the
\* next step of _run_job is its return, with no further line written and
\* the connection still alive.
C33_Step ==
    (RunJob /\ pty.alive /\ pty.i >= 1 /\ pty.n = Some(0) /\ pty.cmd = Some(0)) =>
        /\ pty'.pc = "returned"
        /\ pty'.written = pty.written
        /\ pty'.alive

C33_RunJobReturns == [][C33_Step]_vars

\* the implementation classes of a candidate list with the adaptors they
\* belong to, in the order of the list
ClassesAndAdaptors(table, ctype, schema) ==
    LET infos == Candidates(table, ctype, schema).infos
    IN  [k \in 1..Len(infos) |->
            <<infos[k].cpi_class, infos[k].adaptor_instance.module>>]

\* no candidate list of the table has two entries for the same class of
\* the same adaptor
NoDoubleEntry(table) ==
    \A ctype \in CTypes, schema \in Schemas :
        LET l == ClassesAndAdaptors(table, ctype, schema)
        IN  \A k1, k2 \in 1..Len(l) : l[k1] = l[k2] => k1 = k2

SameLists(t1, t2) ==
    \A ctype \in CTypes, schema \in Schemas :
        ClassesAndAdaptors(t1, ctype, schema) = ClassesAndAdaptors(t2, ctype, schema)

\* C32: after any sequence of loads no candidate list has two entries for
\* the same implementation class of the same adaptor; loading the registry
\* list a second time leaves every candidate list as one load made it; a
\* load with an injected registry leaves the lists one load of the injected
\* list makes.
C32_Step ==
    /\ (EngineInit \/ LoadAdaptorsAgain) => NoDoubleEntry(cpis')
    /\ (/\ LoadAdaptorsAgain
        /\ call'.inject = Absent
        /\ SameLists(cpis, LoadAdaptors(adaptor_registry, allow_betas).cpis))
          => SameLists(cpis', cpis)
    /\ (LoadAdaptorsAgain /\ call'.inject # Absent)
          => SameLists(cpis', LoadAdaptors(call'.inject[1], allow_betas).cpis)

C32_LoadIdempotent == [][C32_Step]_vars

\* the parts of C32, one by one
C32_NoDoubleEntry == [][(EngineInit \/ LoadAdaptorsAgain) => NoDoubleEntry(cpis')]_vars

C32_SecondLoadSame ==
    [][(/\ LoadAdaptorsAgain
        /\ call'.inject = Absent
        /\ NoDoubleEntry(cpis)
        /\ SameLists(cpis, LoadAdaptors(adaptor_registry, allow_betas).cpis))
          => SameLists(cpis', cpis)]_vars

C32_InjectReplaces ==
    [][(LoadAdaptorsAgain /\ call'.inject # Absent)
          => SameLists(cpis', LoadAdaptors(call'.inject[1], allow_betas).cpis)]_vars

\* a Task holds a result only in state DONE
ResultOnlyWhenDone ==
    (dummy.op \in AsyncOps /\ dummy.task # Absent /\ dummy.task[1].result # Absent)
        => dummy.task[1].state = DONE

\* an asynchronous method that has returned has returned a Task that is
\* DONE and has its result
ReturnedTaskDone ==
    (dummy.op \in AsyncOps /\ dummy.pc = "done" /\ dummy.exc = Absent) =>
        /\ dummy.task # Absent
        /\ dummy.task[1].state = DONE
        /\ dummy.task[1].result # Absent

\* C31: every Task an asynchronous method of the dummy adaptor returns is
\* DONE and has its result set, none is returned NEW or RUNNING, and at no
\* point does a Task hold a result while its state is not DONE.
C31_AsyncTasksDone ==
    /\ ReturnedTaskDone
    /\ ResultOnlyWhenDone

\* C34: for a local url whose path does not exist, init_instance of
\* DummyFile (DummyDirectory) with CREATE, and with CREATE_PARENTS when the
\* parent directory is missing too, succeeds and leaves the path a regular
\* file (a directory) in an existing parent; without CREATE it raises
\* BadParameter and leaves the filesystem as it was.
C34_Step ==
    (DummyInitInstance /\ dummy'.url = "local" /\ fs.target = "none") =>
        /\ (dummy'.flags.create /\ (fs.parent = "none" => dummy'.flags.parents)) =>
              /\ dummy'.exc = Absent
              /\ fs'.parent = "dir"
              /\ fs'.target = IF dummy'.op = "DummyFile.init_instance"
                              THEN "file" ELSE "dir"
        /\ ~dummy'.flags.create =>
              /\ dummy'.exc # Absent
              /\ dummy'.exc[1].type = "BadParameter"
              /\ fs' = fs

C34_CreationFlags == [][C34_Step]_vars

\* the part of C34 about DummyDirectory
C34_Directory ==
    [][(dummy'.op = "DummyDirectory.init_instance") => C34_Step]_vars

====
